---- MODULE Spec2Model ----
(***************************************************************************)
(* State-machine model of the ALwrity backend's task lifecycle code:       *)
(*   - the story-video start endpoints and their background executors      *)
(*     (api/story_writer/routes/video_generation.py),                      *)
(*   - the blog router's start and status endpoints                        *)
(*     (api/blog_writer/router.py),                                        *)
(*   - the subscription dashboard's TTL cache                              *)
(*     (api/subscription/cache.py).                                        *)
(*                                                                         *)
(* Progress values are kept in tenths of a percent (5.0 is 50), so that    *)
(* the float arithmetic of the callbacks stays in the integers.            *)
(* Python strings that the code inspects character by character (user      *)
(* ids) are sequences of one-character strings.                            *)
(***************************************************************************)
EXTENDS Integers, Sequences, FiniteSets, TLC

VARIABLES
    storyTasks,     \* story task_manager: task id -> task record
    execPc,         \* position of the background executor run of each task
    execKind,       \* which executor was scheduled for the task
    execScenes,     \* number of scenes of the request the run works on
    cbCount,        \* progress callbacks the current stage has made
    writes,         \* statuses the executor has passed to update_task_status,
                    \* a run of processing updates kept as one entry
    lastUpdate,     \* arguments of the executor's latest update_task_status
    nResult,        \* updates of the task that supplied result=
    nError,         \* updates of the task that supplied error=
    lastExc,        \* the exception the run's except clause caught
    nRuns,          \* executor runs scheduled for the task id
    storyResp,      \* latest HTTP response of a story start endpoint
    storyReq,       \* the request that response answered, with the user id
                    \* require_authenticated_user gave the handler
    lastSub,        \* sub_progress of the current stage's latest callback
    orderly,        \* the run's callbacks so far got sub_progress values
                    \* within [0, 100] that never decreased within a stage
    blogTasks,      \* blog task_manager: task id -> task status dict
    blogAssets,     \* per task, the save_and_track_text_content calls that
                    \* stored its blog
    blogResp,       \* latest request to a blog endpoint, with its HTTP response
    blogSave,       \* what the latest poll's save_and_track_text_content call
                    \* came to: "saved", "raised", or "none" (it was not called)
    dashboard_cache,    \* _dashboard_cache: user id -> cached dashboard
    dashboard_cache_ts, \* _dashboard_cache_ts: user id -> time of caching
    clock,          \* what time.time() returns, in seconds
    environ,        \* value of SUBSCRIPTION_DASHBOARD_NOCACHE in os.environ
    lastSet,        \* per user id, the latest set_cached_dashboard call that
                    \* no clear_dashboard_cache call has undone since
    cacheCall,      \* latest call of a cache function, with what it returned
    calls,          \* per thread, the cache function it is executing, the
                    \* statement it is at, and its local variables
    stampOf,        \* per user id, the data of the set_cached_dashboard call
                    \* that wrote the user's entry of _dashboard_cache_ts
    usage,          \* the caller's UsageSummary row: stability_calls, total_calls
    imgResp,        \* latest request to POST /api/images/generate: its caller,
                    \* its attempts, and its HTTP response
    syncVideo,      \* the running or latest POST /generate-video request: its
                    \* position, its four lists, and its HTTP response
    seoApply,       \* latest apply_recommendations call and what it returned
    wixHtml,        \* latest convert_via_wix_api call: its HTML and what it sent
    frontend,       \* latest request to the frontend app and its response
    mdHtml          \* the running or latest markdown_to_html call

storyVars == <<storyTasks, execPc, execKind, execScenes, cbCount, writes,
               lastUpdate, nResult, nError, lastExc, nRuns, storyResp,
               storyReq, lastSub, orderly>>
blogVars == <<blogTasks, blogAssets, blogResp, blogSave>>
cacheVars == <<dashboard_cache, dashboard_cache_ts, clock, environ, lastSet, cacheCall>>
concVars == <<calls, stampOf>>
\* the variables of the components other than the task registries and the
\* sequential view of the cache
imgVars == <<usage, imgResp>>
pureVars == <<syncVideo, seoApply, wixHtml, frontend, mdHtml>>
extraVars == <<concVars, imgVars, pureVars>>
vars == <<storyVars, blogVars, cacheVars, extraVars>>

(***************************************************************************)
(* Bounds of the model.                                                    *)
(***************************************************************************)
MaxTasks == 1
MaxScenes == 2
MaxCallbacks == 2
MaxBlogTasks == 1
MaxSaves == 2
MaxWindows == 1
MaxThreads == 2
MaxUsage == 2

TaskIds == 1..MaxTasks
BlogIds == 1..MaxBlogTasks
\* task ids a caller may poll: one of them is never handed out
PollIds == 1..(MaxBlogTasks + 1)

\* sub-progress values a stage may pass to its callback (percent)
SubProgress == {-200, 0, 50, 100, 150}

(***************************************************************************)
(* Python values.                                                          *)
(***************************************************************************)
EmptyDict == [k \in {} |-> 0]

\* Python's None where a string is expected
None == "<None>"

\* dict.get(key, default)
Get(d, key, default) == IF key \in DOMAIN d THEN d[key] ELSE default

\* x or default, for a string or None
Or(x, default) == IF x \in {None, ""} THEN default ELSE x

\* Optional[Dict] handed over by Depends(get_current_user)
UserNone == [isNone |-> TRUE, keys |-> {}, idNone |-> FALSE, id |-> <<>>]
UserDict(keys, idNone, id) ==
    [isNone |-> FALSE, keys |-> keys, idNone |-> idNone, id |-> id]
CurrentUsers ==
    { UserNone,
      UserDict({}, FALSE, <<>>),
      UserDict({"email"}, FALSE, <<>>),
      UserDict({"id"}, TRUE, <<>>),
      UserDict({"id"}, FALSE, <<>>),
      UserDict({"id"}, FALSE, <<" ">>),
      UserDict({"id"}, FALSE, <<" ", "u">>),
      UserDict({"id"}, FALSE, <<"u">>) }

\* bool(current_user): None and the empty dict are falsy
Truthy(cu) == ~cu.isNone /\ cu.keys # {}

\* str(current_user.get('id', ''))
StrIdOrEmpty(cu) ==
    IF "id" \notin cu.keys THEN <<>>
    ELSE IF cu.idNone THEN <<"N", "o", "n", "e">>
    ELSE cu.id

\* str(current_user.get('id'))
StrIdOrNone(cu) ==
    IF "id" \notin cu.keys \/ cu.idNone THEN <<"N", "o", "n", "e">>
    ELSE cu.id

RECURSIVE LStrip(_)
LStrip(s) == IF s # <<>> /\ Head(s) = " " THEN LStrip(Tail(s)) ELSE s

RECURSIVE RStrip(_)
RStrip(s) ==
    IF s # <<>> /\ s[Len(s)] = " " THEN RStrip(SubSeq(s, 1, Len(s) - 1)) ELSE s

\* str.strip()
Strip(s) == RStrip(LStrip(s))

\* api/story_writer/utils/auth.py
require_authenticated_user(cu) ==
    IF ~Truthy(cu) THEN [ok |-> FALSE, code |-> 401, user_id |-> <<>>]
    ELSE LET user_id == Strip(StrIdOrEmpty(cu)) IN
         IF user_id = <<>> THEN [ok |-> FALSE, code |-> 401, user_id |-> <<>>]
         ELSE [ok |-> TRUE, code |-> 200, user_id |-> user_id]

\* exceptions a stage can raise: str(exc), and the status code and structured
\* data a subscription-limit error carries (status_code 0: it carries none)
GenericError == [msg |-> "boom", status_code |-> 0, data |-> EmptyDict]
Quota429 == [msg |-> "rate limit", status_code |-> 429,
             data |-> [provider |-> "gemini", current_tokens |-> 100, limit |-> 50]]
Quota402 == [msg |-> "payment required", status_code |-> 402,
             data |-> [provider |-> "stability", current_calls |-> 10]]
Exceptions == {GenericError, Quota429, Quota402}

RuntimeError(msg) == [msg |-> msg, status_code |-> 0, data |-> EmptyDict]

(***************************************************************************)
(* Story task registry (api/story_writer/task_manager.py is not part of    *)
(* the sources at hand; create and update follow the registry contract).   *)
(***************************************************************************)
NoTask ==
    [status |-> "none", progress |-> 0, message |-> "", given |-> {},
     result |-> "", error |-> "", error_status |-> 0, error_data |-> EmptyDict]

NewTask == [NoTask EXCEPT !.status = "pending"]

Terminal == {"completed", "failed"}

\* the keyword arguments of one update_task_status call; `given` names the
\* optional ones that were passed
Update(status, given, progress, message, result, error, error_status, error_data) ==
    [status |-> status, given |-> given, progress |-> progress,
     message |-> message, result |-> result, error |-> error,
     error_status |-> error_status, error_data |-> error_data]

NoUpdate == Update("none", {}, 0, "", "", "", 0, EmptyDict)

\* task_manager.update_task_status: a partial update of a live task
ApplyUpdate(task, u) ==
    IF task.status = "none" \/ task.status \in Terminal THEN task
    ELSE [status |-> u.status,
          given |-> task.given \cup u.given,
          progress |-> IF "progress" \in u.given THEN u.progress ELSE task.progress,
          message |-> IF "message" \in u.given THEN u.message ELSE task.message,
          result |-> IF "result" \in u.given THEN u.result ELSE task.result,
          error |-> IF "error" \in u.given THEN u.error ELSE task.error,
          error_status |-> IF "error_status" \in u.given THEN u.error_status
                           ELSE task.error_status,
          error_data |-> IF "error_data" \in u.given THEN u.error_data
                         ELSE task.error_data]

\* ids of a registry that no task has been given
Unused(tasks) == {t \in DOMAIN tasks : tasks[t].status = "none"}

\* a task manager hands out an id never used before (0: the model has none left)
FreshId(tasks) ==
    IF Unused(tasks) = {} THEN 0
    ELSE CHOOSE t \in Unused(tasks) : \A o \in Unused(tasks) : t <= o

(***************************************************************************)
(* Blog task registry (api/blog_writer/task_manager.py is not part of the  *)
(* sources at hand).  A task's status dict has the key status and,         *)
(* optionally, result, error, error_status and error_data.                 *)
(***************************************************************************)
\* values of error_data: a dict, a string, or None
DictData(d) == [t |-> "dict", d |-> d, s |-> ""]
StrData(s) == [t |-> "str", d |-> EmptyDict, s |-> s]
NoneData == [t |-> "none", d |-> EmptyDict, s |-> ""]

BlogStatus(status, keys, result, error, error_status, error_data) ==
    [status |-> status, keys |-> keys, result |-> result, error |-> error,
     error_status |-> error_status, error_data |-> error_data]

NoBlogTask == BlogStatus("none", {}, "", "", 0, NoneData)
NewBlogTask == BlogStatus("pending", {}, "", "", 0, NoneData)

\* the structured data a failed stage may leave in error_data
ErrorDatas ==
    { NoneData,
      StrData("quota exceeded"),
      DictData(EmptyDict),
      DictData([provider |-> "gemini", current_tokens |-> 100, limit |-> 50]),
      DictData([error_type |-> "call_limit", requested_tokens |-> 5,
                current_calls |-> 10, message |-> "Upgrade your plan",
                error |-> "Call limit reached"]),
      DictData([provider |-> "openai",
                usage_info |-> [provider |-> "openai", limit |-> 7]]),
      DictData([provider |-> "stability", usage_info |-> EmptyDict, limit |-> 3]) }

\* what a failing blog task stores: any combination of the optional keys
Failures ==
    { BlogStatus("failed", keys, "", error, error_status, error_data) :
        keys \in SUBSET {"error", "error_status", "error_data"},
        error \in {"", "task failed"},
        error_status \in {0, 429, 402, 500},
        error_data \in ErrorDatas }

\* a failure whose fields are set exactly for the keys it has
WellFormed(st) ==
    /\ "error" \in st.keys <=> st.error # ""
    /\ "error_status" \in st.keys <=> st.error_status # 0
    /\ "error_data" \notin st.keys => st.error_data = NoneData

\* results of a finished blog task: none, a dict without sections, a blog
Results == {"", "no sections", "blog"}

\* task_manager.get_task_status(task_id): the status dict, or None
get_task_status(tid) == IF tid \in BlogIds THEN blogTasks[tid] ELSE NoBlogTask

(***************************************************************************)
(* HTTP responses of the blog router.  `raised` tells how the handler body *)
(* ended: by returning ("none"), by raising HTTPException, or by raising   *)
(* another exception.                                                      *)
(***************************************************************************)
Response(raised, code, kind, body) ==
    [raised |-> raised, code |-> code, kind |-> kind, body |-> body]

Return(kind, body) == Response("none", 200, kind, body)
HTTPException(code, detail) == Response("HTTPException", code, "detail", detail)
OtherException(msg) == Response("Exception", 0, "detail", msg)

\* (mutant) the clause that re-raises HTTPException is missing
ExceptWithoutReraise(r) ==
    IF r.raised # "none" THEN [raised |-> "HTTPException", code |-> 500,
                               kind |-> "detail", body |-> r.body]
    ELSE r

\* except HTTPException: raise / except Exception: raise HTTPException(500)
ExceptReraise(r) ==
    IF r.raised = "Exception" THEN HTTPException(500, r.body) ELSE r

\* except Exception: raise HTTPException(500), with no clause for HTTPException
ExceptAll(r) ==
    IF r.raised # "none" THEN HTTPException(500, r.body) ELSE r

\* the request a blog endpoint served last (for a start request its caller and
\* whether its body was malformed, for a poll the task id and what
\* get_task_status returned: NoBlogTask is its None), the task it started if
\* any, and its response
Exchange(op, user, malformed, tid, seen, started, resp) ==
    [op |-> op, user |-> user, malformed |-> malformed, tid |-> tid,
     seen |-> seen, started |-> started, resp |-> resp]

NoExchange ==
    Exchange("none", UserNone, FALSE, 0, NoBlogTask, 0,
             Response("none", 0, "none", ""))

(***************************************************************************)
(* Blog start endpoints.                                                   *)
(***************************************************************************)
\* task_manager.start_*_task: a new pending task, or an exception
StartTask(fails) ==
    IF fails THEN OtherException("start failed")
    ELSE Return("started", FreshId(blogTasks))

\* the identity check of start_research
IdentityOrEmpty(cu, then) ==
    IF ~Truthy(cu) THEN HTTPException(401, "Authentication required")
    ELSE IF StrIdOrEmpty(cu) = <<>>
         THEN HTTPException(401, "Invalid user ID in authentication token")
         ELSE then

\* the identity check of the outline, content and medium start endpoints
IdentityOrNone(cu, then) ==
    IF ~Truthy(cu) THEN HTTPException(401, "Authentication required")
    ELSE IF StrIdOrNone(cu) = <<>>
         THEN HTTPException(401, "User ID not found in authentication token")
         ELSE then

\* the handler answers resp; a started response means a task was created
Serve(op, cu, malformed, resp) ==
    /\ resp.kind = "started" => Unused(blogTasks) # {}
    /\ blogTasks' = IF resp.kind = "started"
                    THEN [blogTasks EXCEPT ![resp.body] = NewBlogTask]
                    ELSE blogTasks
    /\ blogResp' = Exchange(op, cu, malformed, 0, NoBlogTask,
                            IF resp.kind = "started" THEN resp.body ELSE 0, resp)
    /\ blogSave' = "none"
    /\ UNCHANGED <<blogAssets, storyVars, cacheVars, extraVars>>

\* POST /research/start
start_research(cu, fails) ==
    Serve("research/start", cu, FALSE,
          ExceptReraise(IdentityOrEmpty(cu, StartTask(fails))))

\* POST /outline/start
start_outline_generation(cu, fails) ==
    Serve("outline/start", cu, FALSE,
          ExceptAll(IdentityOrNone(cu, StartTask(fails))))

\* POST /content/start; valid: the sections and persona pass model validation
start_content_generation(cu, valid, fails) ==
    Serve("content/start", cu, ~valid,
          ExceptAll(IdentityOrNone(cu,
              IF ~valid THEN OtherException("validation error")
              ELSE StartTask(fails))))

\* request.globalTargetWords, 0 standing for None
TargetWords == {0, 1000, 1001}

\* POST /generate/medium/start
start_medium_generation(cu, globalTargetWords, fails) ==
    Serve("generate/medium/start", cu,
          (IF globalTargetWords = 0 THEN 1000 ELSE globalTargetWords) > 1000,
          ExceptReraise(IdentityOrNone(cu,
              IF (IF globalTargetWords = 0 THEN 1000 ELSE globalTargetWords) > 1000
              THEN HTTPException(400, "Global target words exceed 1000; use per-section generation")
              ELSE StartTask(fails))))

(***************************************************************************)
(* The blog tasks' own progress, as the registry contract describes it.    *)
(***************************************************************************)
BlogTaskStep(t, st) ==
    /\ blogTasks' = [blogTasks EXCEPT ![t] = st]
    /\ UNCHANGED <<blogAssets, blogResp, blogSave, storyVars, cacheVars, extraVars>>

BlogTaskRuns(t) ==
    /\ blogTasks[t].status = "pending"
    /\ BlogTaskStep(t, [blogTasks[t] EXCEPT !.status = "processing"])

BlogTaskCompletes(t, result) ==
    /\ blogTasks[t].status = "processing"
    /\ BlogTaskStep(t, BlogStatus("completed", IF result = "" THEN {} ELSE {"result"},
                                  result, "", 0, NoneData))

BlogTaskFails(t, failure) ==
    /\ blogTasks[t].status = "processing"
    /\ WellFormed(failure)
    /\ BlogTaskStep(t, failure)

(***************************************************************************)
(* Blog status endpoints.                                                  *)
(***************************************************************************)
\* (mutant) every failure that has an error_status is translated
IsFailureWithStatus(status) ==
    status.status = "failed" /\ "error_status" \in status.keys

\* status.get('status') == 'failed' and status.get('error_status') in [429, 402]
IsSubscriptionFailure(status) ==
    /\ status.status = "failed"
    /\ "error_status" \in status.keys
    /\ status.error_status \in {429, 402}

\* error_data = status.get('error_data', {}) or {}, made a dict if it is none
ErrorDataDict(status) ==
    LET stored == IF "error_data" \in status.keys THEN status.error_data
                  ELSE DictData(EmptyDict)
    IN  IF stored.t = "none" \/ (stored.t = "str" /\ stored.s = "") THEN EmptyDict
        ELSE IF stored.t = "str" THEN [error |-> stored.s]
        ELSE stored.d

\* stored_error_message = status.get('error', error_data.get('error'))
StoredErrorMessage(status, error_data) ==
    IF "error" \in status.keys THEN status.error
    ELSE Get(error_data, "error", None)

\* (mutant) one of the counters is not copied
CounterKeysWithoutLimit == {"current_tokens", "requested_tokens", "current_calls"}

\* the keys copied from error_data into a usage_info built here
CounterKeys == {"current_tokens", "requested_tokens", "limit", "current_calls"}

\* (mutant) counters that error_data lacks are reported as 0
UsageInfoWithZeros(status, error_data) ==
    LET given == Get(error_data, "usage_info", EmptyDict) IN
    IF given # EmptyDict THEN given
    ELSE [k \in {"provider", "message", "error_type"} \cup CounterKeys |->
            IF k = "provider" THEN Get(error_data, "provider", "unknown")
            ELSE IF k = "message" THEN StoredErrorMessage(status, error_data)
            ELSE IF k = "error_type" THEN Get(error_data, "error_type", "unknown")
            ELSE Get(error_data, k, 0)]

UsageInfo(status, error_data) ==
    LET given == Get(error_data, "usage_info", EmptyDict) IN
    IF given # EmptyDict THEN given
    ELSE [k \in {"provider", "message", "error_type"}
                  \cup (CounterKeys \cap DOMAIN error_data) |->
            IF k = "provider" THEN Get(error_data, "provider", "unknown")
            ELSE IF k = "message" THEN StoredErrorMessage(status, error_data)
            ELSE IF k = "error_type" THEN Get(error_data, "error_type", "unknown")
            ELSE error_data[k]]

\* JSONResponse(status_code=error_status, content={error, message, provider, usage_info})
SubscriptionErrorResponse(status) ==
    LET error_data == ErrorDataDict(status)
        stored == StoredErrorMessage(status, error_data)
        fallback == Or(stored, "Subscription limit exceeded")
    IN  Response("none", status.error_status, "quota",
                 [error |-> Get(error_data, "error", fallback),
                  message |-> Get(error_data, "message", fallback),
                  provider |-> Get(error_data, "provider", "unknown"),
                  usage_info |-> UsageInfo(status, error_data)])

NotFound == HTTPException(404, "Task not found")

\* the body of a status handler that translates subscription failures
TranslatingStatus(status) ==
    IF status = NoBlogTask THEN NotFound
    ELSE IF IsSubscriptionFailure(status) THEN SubscriptionErrorResponse(status)
    ELSE Return("status", status)

\* the body of a status handler that returns the status as it is
PlainStatus(status) ==
    IF status = NoBlogTask THEN NotFound ELSE Return("status", status)

Poll(op, tid, resp) ==
    /\ blogResp' = Exchange(op, UserNone, FALSE, tid, get_task_status(tid), 0, resp)
    /\ UNCHANGED <<blogTasks, storyVars, cacheVars, extraVars>>

\* GET /research/status/{task_id}
get_research_status(tid) ==
    /\ Poll("research/status", tid, ExceptReraise(TranslatingStatus(get_task_status(tid))))
    /\ blogSave' = "none"
    /\ UNCHANGED blogAssets

\* GET /outline/status/{task_id}
get_outline_status(tid) ==
    /\ Poll("outline/status", tid, ExceptReraise(PlainStatus(get_task_status(tid))))
    /\ blogSave' = "none"
    /\ UNCHANGED blogAssets

\* GET /rewrite/status/{task_id}
rewrite_status(tid) ==
    /\ Poll("rewrite/status", tid, ExceptReraise(PlainStatus(get_task_status(tid))))
    /\ blogSave' = "none"
    /\ UNCHANGED blogAssets

\* the block that records a finished blog: it calls save_and_track_text_content
\* when the task is completed with sections and the caller has a user id
TracksBlog(tid, cu) ==
    /\ get_task_status(tid).status = "completed"
    /\ get_task_status(tid).result = "blog"
    /\ Truthy(cu)
    /\ StrIdOrEmpty(cu) # <<>>

\* saveFails: save_and_track_text_content raises, which the block swallows
TrackBlog(tid, cu, saveFails) ==
    /\ IF TracksBlog(tid, cu) /\ ~saveFails
       THEN /\ blogAssets[tid] < MaxSaves
            /\ blogAssets' = [blogAssets EXCEPT ![tid] = @ + 1]
       ELSE UNCHANGED blogAssets
    /\ blogSave' = IF ~TracksBlog(tid, cu) THEN "none"
                   ELSE IF saveFails THEN "raised" ELSE "saved"

\* GET /content/status/{task_id}
content_generation_status(tid, cu, saveFails) ==
    /\ TrackBlog(tid, cu, saveFails)
    /\ Poll("content/status", tid, ExceptReraise(TranslatingStatus(get_task_status(tid))))

\* GET /generate/medium/status/{task_id}
medium_generation_status(tid, cu, saveFails) ==
    /\ TrackBlog(tid, cu, saveFails)
    /\ Poll("generate/medium/status", tid, ExceptReraise(TranslatingStatus(get_task_status(tid))))

(***************************************************************************)
(* Story-video start endpoints.                                            *)
(***************************************************************************)
StoryResponse(code, task_id) == [code |-> code, task_id |-> task_id]

\* the caller of a request, what the handler's call of
\* require_authenticated_user came to, and whether the request body has no
\* scenes, or lists of differing lengths
StoryRequest(op, cu, nScenes, nImages, nAudio) ==
    [op |-> op, user |-> cu, auth |-> require_authenticated_user(cu),
     no_scenes |-> nScenes = 0,
     mismatch |-> nScenes # nImages \/ nScenes # nAudio]

NoStoryRequest == StoryRequest("none", UserNone, 1, 1, 1)

\* (mutant) the handler adds the executor to the background tasks twice
StartRunTwice(kind, scenes) ==
    LET t == FreshId(storyTasks) IN
    /\ storyTasks' = [storyTasks EXCEPT ![t] = NewTask]
    /\ execPc' = [execPc EXCEPT ![t] = "scheduled"]
    /\ execKind' = [execKind EXCEPT ![t] = kind]
    /\ execScenes' = [execScenes EXCEPT ![t] = scenes]
    /\ nRuns' = [nRuns EXCEPT ![t] = @ + 2]
    /\ storyResp' = StoryResponse(200, t)

\* create_task + background_tasks.add_task, and the started response
StartRun(kind, scenes) ==
    LET t == FreshId(storyTasks) IN
    /\ storyTasks' = [storyTasks EXCEPT ![t] = NewTask]
    /\ execPc' = [execPc EXCEPT ![t] = "scheduled"]
    /\ execKind' = [execKind EXCEPT ![t] = kind]
    /\ execScenes' = [execScenes EXCEPT ![t] = scenes]
    /\ nRuns' = [nRuns EXCEPT ![t] = @ + 1]
    /\ storyResp' = StoryResponse(200, t)

Reject(code) ==
    /\ storyResp' = StoryResponse(code, 0)
    /\ UNCHANGED <<storyTasks, execPc, execKind, execScenes, nRuns>>

\* POST /generate-video-async
generate_story_video_async(cu, nScenes, nImages, nAudio) ==
    /\ LET auth == require_authenticated_user(cu) IN
       IF ~auth.ok THEN Reject(auth.code)
       ELSE IF nScenes = 0 THEN Reject(400)
       ELSE IF nScenes # nImages \/ nScenes # nAudio THEN Reject(400)
       ELSE Unused(storyTasks) # {} /\ StartRun("async", nScenes)
    /\ storyReq' = StoryRequest("generate-video-async", cu, nScenes, nImages, nAudio)
    /\ UNCHANGED <<cbCount, writes, lastUpdate, nResult, nError, lastExc,
                   lastSub, orderly>>
    /\ UNCHANGED <<blogVars, cacheVars, extraVars>>

\* POST /generate-complete-video
generate_complete_story_video(cu) ==
    /\ LET auth == require_authenticated_user(cu) IN
       IF ~auth.ok THEN Reject(auth.code)
       ELSE Unused(storyTasks) # {} /\ StartRun("complete", 0)
    /\ storyReq' = StoryRequest("generate-complete-video", cu, 1, 1, 1)
    /\ UNCHANGED <<cbCount, writes, lastUpdate, nResult, nError, lastExc,
                   lastSub, orderly>>
    /\ UNCHANGED <<blogVars, cacheVars, extraVars>>

(***************************************************************************)
(* The background executors.  Every action is one step of a run up to and  *)
(* including the update_task_status call that ends it.                     *)
(***************************************************************************)
\* the log of written statuses, extended by one more
Logged(log, status) ==
    IF log # <<>> /\ log[Len(log)] = "processing" /\ status = "processing" THEN log
    ELSE Append(log, status)

\* the executor of task t calls task_manager.update_task_status with u
Issue(t, u) ==
    /\ storyTasks' = [storyTasks EXCEPT ![t] = ApplyUpdate(@, u)]
    /\ writes' = [writes EXCEPT ![t] = Logged(@, u.status)]
    /\ lastUpdate' = [lastUpdate EXCEPT ![t] = u]
    /\ nResult' = [nResult EXCEPT ![t] = IF "result" \in u.given THEN @ + 1 ELSE @]
    /\ nError' = [nError EXCEPT ![t] = IF "error" \in u.given THEN @ + 1 ELSE @]

Processing(progress, message) ==
    Update("processing", {"progress", "message"}, progress, message,
           "", "", 0, EmptyDict)

\* the stage the run was in is over: its callbacks are not called any more
StageLeft(t) ==
    /\ cbCount' = [cbCount EXCEPT ![t] = 0]
    /\ lastSub' = [lastSub EXCEPT ![t] = 0]
    /\ UNCHANGED orderly

\* (mutant) the completed update without its result payload
CompletedWithoutResult(message, result) ==
    Update("completed", {"progress", "message"}, 1000, message,
           "", "", 0, EmptyDict)

\* update_task_status(task_id, "completed", progress=100.0, message=, result=)
CompletedUpdate(message, result) ==
    Update("completed", {"progress", "message", "result"}, 1000, message,
           result, "", 0, EmptyDict)

\* update_task_status(task_id, "failed", error=str(exc), message=f"...: {exc}")
FailedUpdate(prefix, exc) ==
    Update("failed", {"error", "message"}, 0, prefix \o exc.msg,
           "", exc.msg, 0, EmptyDict)

FailurePrefix(kind) ==
    IF kind = "async" THEN "Video generation failed: "
    ELSE "Complete video generation failed: "

\* (mutant) no except clause: the exception leaves the run without an update
ExceptEscapes(t, exc) ==
    /\ lastExc' = [lastExc EXCEPT ![t] = exc]
    /\ execPc' = [execPc EXCEPT ![t] = "done"]
    /\ StageLeft(t)
    /\ UNCHANGED <<storyTasks, writes, lastUpdate, nResult, nError>>

\* the except clause of the executor of task t catches exc
Except(t, exc) ==
    /\ Issue(t, FailedUpdate(FailurePrefix(execKind[t]), exc))
    /\ lastExc' = [lastExc EXCEPT ![t] = exc]
    /\ execPc' = [execPc EXCEPT ![t] = "done"]
    /\ StageLeft(t)

\* a step that ends with a processing update and moves on to `next`
Advance(t, progress, message, next) ==
    /\ Issue(t, Processing(progress, message))
    /\ execPc' = [execPc EXCEPT ![t] = next]
    /\ StageLeft(t)
    /\ UNCHANGED lastExc

\* the running stage calls its progress callback with sub_progress, and the
\* callback writes progress
Callback(t, sub_progress, progress) ==
    /\ cbCount[t] < MaxCallbacks
    /\ Issue(t, Processing(progress, "stage message"))
    /\ orderly' = [orderly EXCEPT ![t] =
                      /\ @
                      /\ sub_progress \in 0..100
                      /\ cbCount[t] > 0 => sub_progress >= lastSub[t]]
    /\ lastSub' = [lastSub EXCEPT ![t] = sub_progress]
    /\ cbCount' = [cbCount EXCEPT ![t] = @ + 1]
    /\ UNCHANGED <<execPc, lastExc>>

\* (mutant) the completed update is followed by more of the try block
CompleteInsideTry(t, message, result) ==
    /\ Issue(t, CompletedUpdate(message, result))
    /\ UNCHANGED <<execPc, cbCount, lastExc, lastSub, orderly>>

\* the run ends with the completed update
Complete(t, message, result) ==
    /\ Issue(t, CompletedUpdate(message, result))
    /\ execPc' = [execPc EXCEPT ![t] = "done"]
    /\ StageLeft(t)
    /\ UNCHANGED lastExc

ExecFrame ==
    UNCHANGED <<execKind, execScenes, nRuns, storyResp, storyReq, blogVars,
                cacheVars, extraVars>>

At(t, kind, pc) == execKind[t] = kind /\ execPc[t] = pc

Clamp(lo, hi, x) == IF x < lo THEN lo ELSE IF x > hi THEN hi ELSE x

\* scenes whose image and audio are both usable
ValidScenes(n, imgOk, audOk) == {i \in 1..n : imgOk[i] /\ audOk[i]}

(* _execute_video_generation_task *)

AsyncBegin(t) ==
    /\ At(t, "async", "scheduled")
    /\ Advance(t, 20, "Initializing video generation...", "assets")
    /\ ExecFrame

\* the loop over the scenes' files, and the check that follows it
AsyncResolveAssets(t, imgOk, audOk) ==
    /\ At(t, "async", "assets")
    /\ IF ValidScenes(execScenes[t], imgOk, audOk) = {}
       THEN Except(t, RuntimeError("No valid or mismatched image/audio assets for video generation."))
       ELSE /\ execPc' = [execPc EXCEPT ![t] = "video"]
            /\ UNCHANGED <<storyTasks, writes, lastUpdate, nResult, nError,
                           lastExc, cbCount, lastSub, orderly>>
    /\ ExecFrame

\* progress_callback: overall = 5.0 + max(0.0, min(100.0, sub_progress)) * 0.9
progress_callback(sub_progress) == 50 + Clamp(0, 100, sub_progress) * 9

AsyncProgress(t, sub) ==
    /\ At(t, "async", "video")
    /\ Callback(t, sub, progress_callback(sub))
    /\ ExecFrame

AsyncVideoDone(t) ==
    /\ At(t, "async", "video")
    /\ Complete(t, "Video generation complete!", "video")
    /\ ExecFrame

AsyncVideoFails(t, exc) ==
    /\ At(t, "async", "video")
    /\ Except(t, exc)
    /\ ExecFrame

(* execute_complete_video_generation *)

CompleteBegin(t) ==
    /\ At(t, "complete", "scheduled")
    /\ Advance(t, 50, "Starting complete video generation...", "init")
    /\ ExecFrame

CompleteAnnouncePremise(t) ==
    /\ At(t, "complete", "init")
    /\ Advance(t, 100, "Generating story premise...", "premise")
    /\ ExecFrame

\* generate_premise returned
PremiseDone(t) ==
    /\ At(t, "complete", "premise")
    /\ Advance(t, 200, "Generating structured outline with scenes...", "outline")
    /\ ExecFrame

\* generate_outline returned: a list of scenes, or something that is no list
OutlineDone(t, isList) ==
    /\ At(t, "complete", "outline")
    /\ IF ~isList
       THEN Except(t, RuntimeError("Failed to generate structured outline"))
       ELSE Advance(t, 300, "Generating images for scenes...", "images")
    /\ ExecFrame

\* image_progress_callback: overall_progress = 30.0 + (sub_progress * 0.2)
image_progress_callback(sub_progress) == 300 + sub_progress * 2

\* (mutant) the audio stage's callback starts below the progress written when
\* the stage began
audio_progress_callback_low(sub_progress) == 400 + sub_progress * 2

\* audio_progress_callback: overall_progress = 50.0 + (sub_progress * 0.2)
audio_progress_callback(sub_progress) == 500 + sub_progress * 2

\* (mutant) the video stage's callback spreads sub_progress over 75..100
video_progress_callback_to_end(sub_progress) == 750 + (sub_progress * 25) \div 10

\* video_progress_callback: overall_progress = 75.0 + (sub_progress * 0.2)
video_progress_callback(sub_progress) == 750 + sub_progress * 2

ImageProgress(t, sub) ==
    /\ At(t, "complete", "images")
    /\ Callback(t, sub, image_progress_callback(sub))
    /\ ExecFrame

ImagesDone(t) ==
    /\ At(t, "complete", "images")
    /\ Advance(t, 500, "Generating audio narration for scenes...", "audio")
    /\ ExecFrame

AudioProgress(t, sub) ==
    /\ At(t, "complete", "audio")
    /\ Callback(t, sub, audio_progress_callback(sub))
    /\ ExecFrame

AudioDone(t) ==
    /\ At(t, "complete", "audio")
    /\ Advance(t, 700, "Preparing video assets...", "prepare")
    /\ ExecFrame

\* the matching of image and audio results to the n scenes of the outline
PrepareAssets(t, n, imgOk, audOk) ==
    /\ At(t, "complete", "prepare")
    /\ IF ValidScenes(n, imgOk, audOk) = {}
       THEN Except(t, RuntimeError("No valid images or audio files were generated."))
       ELSE Advance(t, 750, "Composing video from scenes...", "video")
    /\ ExecFrame

VideoProgress(t, sub) ==
    /\ At(t, "complete", "video")
    /\ Callback(t, sub, video_progress_callback(sub))
    /\ ExecFrame

VideoDone(t) ==
    /\ At(t, "complete", "video")
    /\ Complete(t, "Complete video generation finished!", "complete")
    /\ ExecFrame

\* a stage (or the evaluation of its arguments) raises
StageFails(t, exc) ==
    /\ execKind[t] = "complete"
    /\ execPc[t] \in {"premise", "outline", "images", "audio", "prepare", "video"}
    /\ Except(t, exc)
    /\ ExecFrame

(***************************************************************************)
(* The dashboard cache (api/subscription/cache.py).  Times are in seconds. *)
(***************************************************************************)
DASHBOARD_CACHE_TTL_SEC == 600

\* user ids the cache functions are called with
CacheUsers == {"", "u1", "u2"}

\* dashboards a caller stores
Dashboards == {"d1", "d2"}

\* the instants at which calls are made: the ends of the TTL windows, and
\* the second before each
Instants ==
    {i \in 0..(MaxWindows * DASHBOARD_CACHE_TTL_SEC) :
        i % DASHBOARD_CACHE_TTL_SEC \in {0, DASHBOARD_CACHE_TTL_SEC - 1}}

\* values of SUBSCRIPTION_DASHBOARD_NOCACHE; None: the variable is not set
EnvValues == {None, "1", "TRUE", "off"}

\* os.getenv(name, default)
Getenv(value, default) == IF value = None THEN default ELSE value

\* str.lower()
Lower(s) ==
    CASE s = "TRUE" -> "true"
      [] s = "Yes" -> "yes"
      [] s = "ON" -> "on"
      [] OTHER -> s

\* dict.pop(key, None)
Pop(d, key) == [k \in DOMAIN d \ {key} |-> d[k]]

\* d[key] = value
Store(d, key, value) == [k \in DOMAIN d \cup {key} |-> IF k = key THEN value ELSE d[k]]

\* bool(user_id) of an Optional[str]
TruthyStr(user_id) == user_id \notin {None, ""}

CacheCall(op, user_id, data, nocache, ret) ==
    [op |-> op, user_id |-> user_id, data |-> data, nocache |-> nocache,
     ret |-> ret]

NoCacheCall == CacheCall("none", None, None, FALSE, None)

\* the record of set_cached_dashboard calls kept beside the cache
NeverSet == [live |-> FALSE, data |-> None, at |-> 0]
SetAt(data, at) == [live |-> TRUE, data |-> data, at |-> at]

CacheFrame == UNCHANGED <<storyVars, blogVars, extraVars>>

\* (mutant) the bypass flag is never read
NocacheIgnored(value) == FALSE

\* os.getenv('SUBSCRIPTION_DASHBOARD_NOCACHE', 'false').lower() in {...}
Nocache(value) == Lower(Getenv(value, "false")) \in {"1", "true", "yes", "on"}

get_cached_dashboard(user_id) ==
    LET nocache == Nocache(environ)
        now == clock
        ret == IF nocache THEN None
               ELSE IF /\ user_id \in DOMAIN dashboard_cache
                       /\ (now - Get(dashboard_cache_ts, user_id, 0))
                              < DASHBOARD_CACHE_TTL_SEC
                    THEN dashboard_cache[user_id]
                    ELSE None
    IN  /\ cacheCall' = CacheCall("get", user_id, None, nocache, ret)
        /\ UNCHANGED <<dashboard_cache, dashboard_cache_ts, clock, environ, lastSet>>
        /\ CacheFrame

\* (mutant) an overwrite keeps the time of the entry it replaces
SetKeepingStamp(ts, user_id, now) ==
    IF user_id \in DOMAIN ts THEN ts ELSE Store(ts, user_id, now)

\* _dashboard_cache_ts[user_id] = time.time()
Stamp(ts, user_id, now) == Store(ts, user_id, now)

set_cached_dashboard(user_id, data) ==
    /\ dashboard_cache' = Store(dashboard_cache, user_id, data)
    /\ dashboard_cache_ts' = Stamp(dashboard_cache_ts, user_id, clock)
    /\ lastSet' = [lastSet EXCEPT ![user_id] = SetAt(data, clock)]
    /\ cacheCall' = CacheCall("set", user_id, data, FALSE, None)
    /\ UNCHANGED <<clock, environ>>
    /\ CacheFrame

\* clear_dashboard_cache(user_id), user_id None when the argument is left out
clear_dashboard_cache(user_id) ==
    /\ IF TruthyStr(user_id)
       THEN /\ dashboard_cache' = Pop(dashboard_cache, user_id)
            /\ dashboard_cache_ts' = Pop(dashboard_cache_ts, user_id)
            /\ lastSet' = [lastSet EXCEPT ![user_id] = NeverSet]
       ELSE /\ dashboard_cache' = EmptyDict
            /\ dashboard_cache_ts' = EmptyDict
            /\ lastSet' = [u \in CacheUsers |-> NeverSet]
    /\ cacheCall' = CacheCall("clear", user_id, None, FALSE, None)
    /\ UNCHANGED <<clock, environ>>
    /\ CacheFrame

\* time passes
Tick(to) ==
    /\ to > clock
    /\ clock' = to
    /\ UNCHANGED <<dashboard_cache, dashboard_cache_ts, environ, lastSet, cacheCall>>
    /\ CacheFrame

\* the operator sets or unsets SUBSCRIPTION_DASHBOARD_NOCACHE
SetEnv(value) ==
    /\ value # environ
    /\ environ' = value
    /\ UNCHANGED <<dashboard_cache, dashboard_cache_ts, clock, lastSet, cacheCall>>
    /\ CacheFrame

(***************************************************************************)
(* The cache functions statement by statement, as threads that serve       *)
(* requests side by side execute them.  The module has no lock; one        *)
(* statement on a dict is one step.                                        *)
(***************************************************************************)
Threads == 1..MaxThreads

\* the frame of a call: the function, the next statement, the arguments, the
\* local `now`, the data whose timestamp the TTL test read, and the return
\* value (raised: the call ended in a KeyError)
Frame(op, pc, user_id, data, now, stamp, ret, raised) ==
    [op |-> op, pc |-> pc, user_id |-> user_id, data |-> data, now |-> now,
     stamp |-> stamp, ret |-> ret, raised |-> raised]

IdleCall == Frame("none", "idle", None, None, 0, None, None, FALSE)

Running == {th \in Threads : calls[th].pc # "idle"}

ConcFrame ==
    UNCHANGED <<storyVars, blogVars, environ, lastSet, cacheCall, imgVars, pureVars>>

\* thread th moves on to frame f
Goto(th, f) == calls' = [calls EXCEPT ![th] = f]

\* thread th returns ret from its call
Finish(th, ret, raised) ==
    Goto(th, [calls[th] EXCEPT !.pc = "idle", !.ret = ret, !.raised = raised])

\* a request handler on thread th calls a cache function
BeginCall(th, op, user_id, data) ==
    /\ calls[th].pc = "idle"
    /\ Goto(th, Frame(op, "first", user_id, data, 0, None, None, FALSE))
    /\ UNCHANGED <<dashboard_cache, dashboard_cache_ts, clock, stampOf>>
    /\ ConcFrame

\* set_cached_dashboard, line 52: _dashboard_cache[user_id] = data
SetStoreValue(th) ==
    /\ calls[th].op = "set" /\ calls[th].pc = "first"
    /\ dashboard_cache' = Store(dashboard_cache, calls[th].user_id, calls[th].data)
    /\ Goto(th, [calls[th] EXCEPT !.pc = "stamp"])
    /\ UNCHANGED <<dashboard_cache_ts, clock, stampOf>>
    /\ ConcFrame

\* set_cached_dashboard, line 53: _dashboard_cache_ts[user_id] = time.time()
SetStoreStamp(th) ==
    /\ calls[th].op = "set" /\ calls[th].pc = "stamp"
    /\ dashboard_cache_ts' = Stamp(dashboard_cache_ts, calls[th].user_id, clock)
    /\ stampOf' = [stampOf EXCEPT ![calls[th].user_id] = calls[th].data]
    /\ Finish(th, None, FALSE)
    /\ UNCHANGED <<dashboard_cache, clock>>
    /\ ConcFrame

\* clear_dashboard_cache, line 64 (or 67): the value map
ClearValues(th) ==
    /\ calls[th].op = "clear" /\ calls[th].pc = "first"
    /\ dashboard_cache' = IF TruthyStr(calls[th].user_id)
                          THEN Pop(dashboard_cache, calls[th].user_id)
                          ELSE EmptyDict
    /\ Goto(th, [calls[th] EXCEPT !.pc = "stamp"])
    /\ UNCHANGED <<dashboard_cache_ts, clock, stampOf>>
    /\ ConcFrame

\* clear_dashboard_cache, line 65 (or 68): the timestamp map
ClearStamps(th) ==
    /\ calls[th].op = "clear" /\ calls[th].pc = "stamp"
    /\ dashboard_cache_ts' = IF TruthyStr(calls[th].user_id)
                             THEN Pop(dashboard_cache_ts, calls[th].user_id)
                             ELSE EmptyDict
    /\ stampOf' = IF TruthyStr(calls[th].user_id)
                  THEN [stampOf EXCEPT ![calls[th].user_id] = None]
                  ELSE [u \in CacheUsers |-> None]
    /\ Finish(th, None, FALSE)
    /\ UNCHANGED <<dashboard_cache, clock>>
    /\ ConcFrame

GetFrame == UNCHANGED <<dashboard_cache, dashboard_cache_ts, clock, stampOf>>

\* get_cached_dashboard, lines 28-37: the bypass test, and now = time.time()
GetReadClock(th) ==
    /\ calls[th].op = "get" /\ calls[th].pc = "first"
    /\ IF Nocache(environ) THEN Finish(th, None, FALSE)
       ELSE Goto(th, [calls[th] EXCEPT !.pc = "member", !.now = clock])
    /\ GetFrame
    /\ ConcFrame

\* line 38, left operand: user_id in _dashboard_cache
GetTestMember(th) ==
    /\ calls[th].op = "get" /\ calls[th].pc = "member"
    /\ IF calls[th].user_id \in DOMAIN dashboard_cache
       THEN Goto(th, [calls[th] EXCEPT !.pc = "ttl"])
       ELSE Finish(th, None, FALSE)
    /\ GetFrame
    /\ ConcFrame

\* line 38, right operand: (now - _dashboard_cache_ts.get(user_id, 0)) < TTL
GetTestTtl(th) ==
    /\ calls[th].op = "get" /\ calls[th].pc = "ttl"
    /\ IF (calls[th].now - Get(dashboard_cache_ts, calls[th].user_id, 0))
              < DASHBOARD_CACHE_TTL_SEC
       THEN Goto(th, [calls[th] EXCEPT !.pc = "value",
                                       !.stamp = stampOf[calls[th].user_id]])
       ELSE Finish(th, None, FALSE)
    /\ GetFrame
    /\ ConcFrame

\* line 39: return _dashboard_cache[user_id]
GetReadValue(th) ==
    /\ calls[th].op = "get" /\ calls[th].pc = "value"
    /\ IF calls[th].user_id \in DOMAIN dashboard_cache
       THEN Finish(th, dashboard_cache[calls[th].user_id], FALSE)
       ELSE Finish(th, None, TRUE)
    /\ GetFrame
    /\ ConcFrame

\* time passes while calls are in progress
ConcTick(to) ==
    /\ to > clock
    /\ clock' = to
    /\ UNCHANGED <<dashboard_cache, dashboard_cache_ts, calls, stampOf>>
    /\ ConcFrame

\* the user the concurrent requests are about
ConcUsers == {"u1"}

ConcNext ==
    \/ \E th \in Threads, u \in ConcUsers, d \in Dashboards : BeginCall(th, "set", u, d)
    \/ \E th \in Threads, u \in ConcUsers : BeginCall(th, "clear", u, None)
    \/ \E th \in Threads, u \in ConcUsers : BeginCall(th, "get", u, None)
    \/ \E th \in Threads :
        \/ SetStoreValue(th)
        \/ SetStoreStamp(th)
        \/ ClearValues(th)
        \/ ClearStamps(th)
        \/ GetReadClock(th)
        \/ GetTestMember(th)
        \/ GetTestTtl(th)
        \/ GetReadValue(th)
    \/ \E to \in Instants : ConcTick(to)

CacheNext ==
    \/ \E u \in CacheUsers : get_cached_dashboard(u)
    \/ \E u \in CacheUsers, d \in Dashboards : set_cached_dashboard(u, d)
    \/ \E u \in CacheUsers \cup {None} : clear_dashboard_cache(u)
    \/ \E to \in Instants : Tick(to)
    \/ \E v \in EnvValues : SetEnv(v)

(***************************************************************************)
(* POST /api/images/generate (api/images.py).                              *)
(***************************************************************************)
\* callers of the endpoint
ImageCallers == {UserNone, UserDict({"id"}, FALSE, <<"u">>)}

\* req.provider: a provider name, or None
Providers == {None, "stability"}

\* what happens in one pass of the retry loop:
\*   raises - the statement whose exception reaches `except Exception as inner`
\*            (generate_image, the base64 encoding, the construction of the
\*            response), or none;
\*   save   - save_file_safely returns a path, returns an error, or raises;
\*   asset  - save_asset_to_library returns or raises;
\*   track  - the usage block commits, raises before its commit, or raises
\*            after it (in the log output that follows the commit)
Outcome(raises, save, asset, track) ==
    [raises |-> raises, save |-> save, asset |-> asset, track |-> track]

\* an attempt that ends before the side effects are reached
EarlyOutcomes ==
    {Outcome(r, "none", "none", "none") : r \in {"generate", "encode"}}

\* an attempt that got its image: the side effects run, then the response is
\* built
LateOutcomes ==
    {Outcome(r, sa[1], sa[2], tr) :
        r \in {"none", "respond"},
        sa \in {<<"saved", "recorded">>, <<"saved", "raises">>,
                <<"error", "none">>, <<"raises", "none">>},
        tr \in {"committed", "raises", "raises_after_commit"}}

Outcomes == EarlyOutcomes \cup LateOutcomes

\* (mutant) an exception of a side effect leaves its try block
PropagatesFromSideEffects(a) ==
    \/ a.raises # "none"
    \/ a.save = "raises"
    \/ a.asset = "raises"
    \/ a.track \in {"raises", "raises_after_commit"}

\* the attempt ends in `except Exception as inner`: the blocks around the
\* file save (96-161), the asset library (124-155) and the usage tracking
\* (166-247) catch what is raised inside them
Propagates(a) == a.raises # "none"

\* image_url: set when the file was saved (117-119)
ImageUrl(a) == IF a.save = "saved" THEN "/api/images/image-studio/images/img.png" ELSE None

\* db_track.commit() was reached (223)
Commits(a) == IF a.track \in {"committed", "raises_after_commit"} THEN 1 ELSE 0

\* (mutant) every first failure is retried
RetriesAlways(attempt, provider) == attempt = 0

\* if attempt == 0 and req.provider: req.provider = None; continue
Retries(attempt, provider) == attempt = 0 /\ provider # None

ImageResponse(code, kind, image_url) ==
    [code |-> code, kind |-> kind, image_url |-> image_url]

\* ImageGenerateResponse(success=True, ...)
ImageOk(a) == ImageResponse(200, "image", ImageUrl(a))

\* the outer except clause: HTTPException(500) for whatever was raised
ImageUnavailable == ImageResponse(500, "detail", None)

\* the request served: the caller, req.provider as sent, the attempts made
\* (the provider passed to generate_image and what came of the attempt), the
\* usage commits of the request and the response
ImageRequest(cu, provider, attempts, commits, resp) ==
    [user |-> cu, provider |-> provider, attempts |-> attempts,
     commits |-> commits, resp |-> resp]

NoImageRequest == ImageRequest(UserNone, None, <<>>, 0, ImageResponse(0, "none", None))

Try(provider, a) == [provider |-> provider, outcome |-> a]

\* the passes of `for attempt in range(2)` for outcomes a1 and a2
AttemptsOf(provider, a1, a2) ==
    IF Propagates(a1) /\ Retries(0, provider)
    THEN <<Try(provider, a1), Try(None, a2)>>
    ELSE <<Try(provider, a1)>>

RECURSIVE CommitsOf(_)
CommitsOf(attempts) ==
    IF attempts = <<>> THEN 0
    ELSE Commits(Head(attempts).outcome) + CommitsOf(Tail(attempts))

ImgFrame == UNCHANGED <<storyVars, blogVars, cacheVars, concVars, pureVars>>

\* POST /api/images/generate
generate(cu, provider, a1, a2) ==
    /\ IF ~Truthy(cu) \/ StrIdOrEmpty(cu) = <<>>
       THEN /\ imgResp' = ImageRequest(cu, provider, <<>>, 0, ImageUnavailable)
            /\ UNCHANGED usage
       ELSE LET attempts == AttemptsOf(provider, a1, a2)
                last == attempts[Len(attempts)].outcome
                commits == CommitsOf(attempts)
            IN  /\ usage.total_calls + commits <= MaxUsage
                /\ usage' = [stability_calls |-> usage.stability_calls + commits,
                             total_calls |-> usage.total_calls + commits]
                /\ imgResp' = ImageRequest(cu, provider, attempts, commits,
                                  IF Propagates(last) THEN ImageUnavailable
                                  ELSE ImageOk(last))
    /\ ImgFrame

\* what the second pass can come to; there is none to choose when the loop
\* ends with the first
SecondOutcomes(provider, a1) ==
    IF Len(AttemptsOf(provider, a1, a1)) = 2 THEN Outcomes ELSE {a1}

ImgNext ==
    \E cu \in ImageCallers, provider \in Providers, a1 \in Outcomes :
        \E a2 \in SecondOutcomes(provider, a1) : generate(cu, provider, a1, a2)

\* a caller with a user id
Identified == UserDict({"id"}, FALSE, <<"u">>)

(***************************************************************************)
(* POST /generate-video, the synchronous video endpoint.  The handler's    *)
(* loop over the scenes is one action per scene; the files it looks for    *)
(* are present or missing as the action's input says.                      *)
(***************************************************************************)
MaxSyncScenes == 2

\* the components framed by the actions of the single-function components
OtherFrame == UNCHANGED <<storyVars, blogVars, cacheVars, concVars, imgVars>>

\* an entry of video_paths, image_paths or audio_paths: the file of a kind
\* found for the scene at index scene of the request, or None
PathOf(kind, scene) == [kind |-> kind, scene |-> scene]
NoPath == PathOf("none", 0)

SyncRun(pc, n, idx, video_paths, image_paths, audio_paths, valid_scenes, code) ==
    [pc |-> pc, n |-> n, idx |-> idx, video_paths |-> video_paths,
     image_paths |-> image_paths, audio_paths |-> audio_paths,
     valid_scenes |-> valid_scenes, code |-> code]

NoSyncRun == SyncRun("idle", 0, 0, <<>>, <<>>, <<>>, <<>>, 0)

\* what the loop body finds for one scene: whether the request has a video
\* and an AI audio URL for it, and which of its four files exist
SceneFiles ==
    [video_url : BOOLEAN, video : BOOLEAN, image : BOOLEAN,
     ai_audio_url : BOOLEAN, ai_audio : BOOLEAN, audio : BOOLEAN]

\* the video and image part of the loop body for the scene at index idx
\* (found: it did not reach the continue)
VisualPart(r, idx, f) ==
    LET video_path == f.video_url /\ f.video
        vp1 == IF ~f.video_url THEN r.video_paths
               ELSE IF f.video THEN Append(r.video_paths, PathOf("video", idx))
               ELSE Append(r.video_paths, NoPath)
        ip1 == IF video_path THEN Append(r.image_paths, NoPath) ELSE r.image_paths
    IN  IF video_path
        THEN [video_paths |-> vp1, image_paths |-> ip1, found |-> TRUE]
        ELSE IF f.image
        THEN [video_paths |-> Append(vp1, NoPath),
              image_paths |-> Append(ip1, PathOf("image", idx)), found |-> TRUE]
        ELSE [video_paths |-> vp1, image_paths |-> ip1, found |-> FALSE]

\* the audio part: the path the body appends, or None when it continues
AudioPart(idx, f) ==
    IF f.ai_audio_url /\ f.ai_audio THEN PathOf("ai_audio", idx)
    ELSE IF f.audio THEN PathOf("audio", idx)
    ELSE NoPath

SyncFrame == /\ OtherFrame
             /\ UNCHANGED <<seoApply, wixHtml, frontend, mdHtml>>

\* the handler up to the loop
generate_story_video(cu, nScenes, nImages, nAudio) ==
    /\ syncVideo.pc \in {"idle", "returned"}
    /\ LET auth == require_authenticated_user(cu) IN
       syncVideo' =
         IF ~auth.ok THEN SyncRun("returned", 0, 0, <<>>, <<>>, <<>>, <<>>, auth.code)
         ELSE IF nScenes = 0 \/ nScenes # nImages \/ nScenes # nAudio
         THEN SyncRun("returned", 0, 0, <<>>, <<>>, <<>>, <<>>, 400)
         ELSE SyncRun("loop", nScenes, 0, <<>>, <<>>, <<>>, <<>>, 0)
    /\ SyncFrame

\* one pass of the loop
SceneStep(f) ==
    /\ syncVideo.pc = "loop"
    /\ syncVideo.idx < syncVideo.n
    /\ LET idx == syncVideo.idx
           v == VisualPart(syncVideo, idx, f)
           audio_path == AudioPart(idx, f)
           complete == v.found /\ audio_path # NoPath
       IN  syncVideo' = [syncVideo EXCEPT
               !.idx = idx + 1,
               !.video_paths = v.video_paths,
               !.image_paths = v.image_paths,
               !.audio_paths = IF complete THEN Append(@, audio_path) ELSE @,
               !.valid_scenes = IF complete THEN Append(@, idx) ELSE @]
    /\ SyncFrame

\* the checks after the loop and the call of the video service
CallVideoService ==
    /\ syncVideo.pc = "loop"
    /\ syncVideo.idx = syncVideo.n
    /\ syncVideo' =
         IF Len(syncVideo.valid_scenes) = 0 \/ Len(syncVideo.audio_paths) = 0
         THEN [syncVideo EXCEPT !.pc = "returned", !.code = 400]
         ELSE IF Len(syncVideo.valid_scenes) # Len(syncVideo.audio_paths)
         THEN [syncVideo EXCEPT !.pc = "returned", !.code = 400]
         ELSE [syncVideo EXCEPT !.pc = "called"]
    /\ SyncFrame

\* the video service returns or raises, and the handler answers
VideoServiceEnds(raises) ==
    /\ syncVideo.pc = "called"
    /\ syncVideo' = [syncVideo EXCEPT !.pc = "returned",
                                      !.code = IF raises THEN 500 ELSE 200]
    /\ SyncFrame

SyncNext ==
    \/ \E cu \in {UserNone, Identified} :
       \E nS \in 0..MaxSyncScenes, nI \in 1..MaxSyncScenes, nA \in 1..MaxSyncScenes :
           generate_story_video(cu, nS, nI, nA)
    \/ \E f \in SceneFiles : SceneStep(f)
    \/ CallVideoService
    \/ \E raises \in BOOLEAN : VideoServiceEnds(raises)

(***************************************************************************)
(* BlogSEORecommendationApplier.apply_recommendations.  Strings are        *)
(* sequences of characters; a missing key and the empty string are both    *)
(* the empty sequence, which is what `or` makes of them.                   *)
(***************************************************************************)
MaxSections == 2
MaxRaw == 2

\* a or b, on strings as sequences of characters
OrStr(a, b) == IF a # <<>> THEN a ELSE b

\* f"section_{index + 1}", for the section at position n of the input
Digits == <<"1", "2", "3", "4">>
SectionN(n) == <<"section_", Digits[n]>>

\* the sections of the payload: their id and section_id
InputSections ==
    [id : {<<>>, <<"a">>, <<"b">>, <<" ", "a">>, <<" ">>},
     section_id : {<<>>, <<"b">>}]

\* the sections the text generator returned: their id and heading
RawSections ==
    [id : {<<>>, <<"a">>, <<"a", " ">>}, heading : {<<>>, <<"b">>}]

\* section_id of the first loop, for a returned section
RawId(updated) == Strip(OrStr(updated.id, updated.heading))

\* fallback_id of the second loop, for the input section at position n
FallbackId(original, n) ==
    Strip(OrStr(original.id, OrStr(original.section_id, SectionN(n))))

\* updated_map.get(key): the position in raw_sections of the entry stored
\* under key (the last one stored wins), 0 when there is none
RECURSIVE UpdatedMapGet(_, _)
UpdatedMapGet(raw_sections, key) ==
    IF raw_sections = <<>> THEN 0
    ELSE LET n == Len(raw_sections) IN
         IF RawId(raw_sections[n]) # <<>> /\ RawId(raw_sections[n]) = key THEN n
         ELSE UpdatedMapGet(SubSeq(raw_sections, 1, n - 1), key)

\* a section of the result: its id, where its text came from (the returned
\* section with its id, the returned section at its position, or the input
\* section), and the position of that returned section
Mapped(id, source, raw) == [id |-> id, source |-> source, raw |-> raw]

\* normalized_sections after the second loop
Normalized(sections, raw_sections) ==
    [n \in 1..Len(sections) |->
        LET fallback_id == FallbackId(sections[n], n)
            found == UpdatedMapGet(raw_sections, fallback_id)
        IN  IF found # 0 THEN Mapped(RawId(raw_sections[found]), "updated", found)
            ELSE IF raw_sections # <<>>
            THEN Mapped(fallback_id, "positional",
                        IF n <= Len(raw_sections) THEN n ELSE 0)
            ELSE Mapped(fallback_id, "original", 0)]

\* a call: the payload's sections and whether it has recommendations, what
\* the text generator returned, and the returned dict
SeoCall(pc, sections, recommendations, raw_sections, success, result) ==
    [pc |-> pc, sections |-> sections, recommendations |-> recommendations,
     raw_sections |-> raw_sections, success |-> success, result |-> result]

NoSeoCall == SeoCall("payload", <<>>, FALSE, <<>>, FALSE, <<>>)

SeoFrame == /\ OtherFrame
            /\ UNCHANGED <<syncVideo, wixHtml, frontend, mdHtml>>

\* the caller puts one more section into the payload
PayloadSection(section) ==
    /\ seoApply.pc = "payload"
    /\ Len(seoApply.sections) < MaxSections
    /\ seoApply' = [seoApply EXCEPT !.sections = Append(@, section)]
    /\ SeoFrame

\* apply_recommendations up to the call of the text generator
apply_recommendations(recommendations) ==
    /\ seoApply.pc = "payload"
    /\ seoApply' =
         IF seoApply.sections = <<>>
         THEN [seoApply EXCEPT !.pc = "returned", !.success = FALSE]
         ELSE IF ~recommendations
         THEN [seoApply EXCEPT !.pc = "returned", !.success = TRUE,
                 !.result = [n \in 1..Len(seoApply.sections) |->
                     Mapped(OrStr(seoApply.sections[n].id, seoApply.sections[n].section_id),
                            "original", 0)]]
         ELSE [seoApply EXCEPT !.pc = "generating", !.recommendations = TRUE]
    /\ SeoFrame

\* the text generator writes one more section
GeneratorSection(updated) ==
    /\ seoApply.pc = "generating"
    /\ Len(seoApply.raw_sections) < MaxRaw
    /\ seoApply' = [seoApply EXCEPT !.raw_sections = Append(@, updated)]
    /\ SeoFrame

\* llm_text_gen returns (failed: nothing, or a dict with an error), and
\* apply_recommendations runs to its return
GeneratorReturns(failed) ==
    /\ seoApply.pc = "generating"
    /\ seoApply' =
         IF failed THEN [seoApply EXCEPT !.pc = "returned", !.success = FALSE]
         ELSE [seoApply EXCEPT !.pc = "returned", !.success = TRUE,
                 !.result = Normalized(seoApply.sections, seoApply.raw_sections)]
    /\ SeoFrame

SeoNext ==
    \/ \E section \in InputSections : PayloadSection(section)
    \/ \E recommendations \in BOOLEAN : apply_recommendations(recommendations)
    \/ \E updated \in RawSections : GeneratorSection(updated)
    \/ \E failed \in BOOLEAN : GeneratorReturns(failed)

(***************************************************************************)
(* convert_via_wix_api up to the request it sends.  An HTML string is what *)
(* the function looks at: its length and the positions where "</p>" occurs *)
(* in it.                                                                  *)
(***************************************************************************)
MAX_HTML_LENGTH == 10000

Html(len, tags) == [len |-> len, tags |-> tags]

\* len("</p>")
TagLen == Len(<<"<", "/", "p", ">">>)

\* '<p>Content from ALwrity blog writer.</p>'
FallbackHtml == Html(40, {36})

\* '<p><em>... (Content truncated due to length constraints)</em></p>'
TruncationNotice == Html(65, {61})

\* lengths of the HTML markdown_to_html returns, and the positions where it
\* can have a "</p>" (it starts with an opening tag)
HtmlLengths ==
    {0, 5000, 9896, 9900, 9901, 9935, 9999, 10000, 10001, 10065, 15000}
TagPositions == {3, 5000, 9895, 9896, 9897, 9900, 9996, 9997, 14000}

\* the greatest element of a non-empty set of numbers
Greatest(S) == CHOOSE x \in S : \A y \in S : y <= x

\* (mutant) html.rfind('</p>')
RFindAnywhere(html, end) ==
    IF html.tags = {} THEN -1 ELSE Greatest(html.tags)

\* html.rfind('</p>', 0, end): the last occurrence that lies within
\* html[0:end], -1 when there is none
RFind(html, end) ==
    LET within == {t \in html.tags : t + TagLen <= end}
    IN  IF within = {} THEN -1 ELSE Greatest(within)

\* html[:n]
Prefix(html, n) ==
    IF n >= html.len THEN html
    ELSE Html(n, {t \in html.tags : t + TagLen <= n})

\* a + b
Concat(a, b) == Html(a.len + b.len, a.tags \cup {a.len + t : t \in b.tags})

\* html_content after the validation of lines 178-187
Validated(converted) == IF converted.len = 0 THEN FallbackHtml ELSE converted

\* html_content after lines 191-207
Truncated(html_content) ==
    IF html_content.len > MAX_HTML_LENGTH
    THEN LET truncate_at == MAX_HTML_LENGTH - 100
             last_p_close == RFind(html_content, truncate_at)
         IN  Concat(IF last_p_close > 0
                    THEN Prefix(html_content, last_p_close + TagLen)
                    ELSE Prefix(html_content, truncate_at),
                    TruncationNotice)
    ELSE html_content

\* a call: what markdown_to_html returned, html_content before the length
\* test, and the HTML of the request
WixCall(pc, converted, html_content, sent) ==
    [pc |-> pc, converted |-> converted, html_content |-> html_content,
     sent |-> sent]

NoWixCall == WixCall("idle", Html(0, {}), Html(0, {}), Html(0, {}))

WixFrame == /\ OtherFrame
            /\ UNCHANGED <<syncVideo, seoApply, frontend, mdHtml>>

\* convert_via_wix_api is called: empty content raises, other content is
\* handed to markdown_to_html, which returns HTML of some length
convert_via_wix_api(empty, len) ==
    /\ wixHtml.pc = "idle"
    /\ wixHtml' = IF empty THEN [wixHtml EXCEPT !.pc = "raised"]
                  ELSE [wixHtml EXCEPT !.pc = "converting",
                                       !.converted = Html(len, {})]
    /\ WixFrame

\* the HTML markdown_to_html returns has a "</p>" at position t
HtmlHasTag(t) ==
    /\ wixHtml.pc = "converting"
    /\ t + TagLen <= wixHtml.converted.len
    /\ \A u \in wixHtml.converted.tags : u + TagLen <= t \/ t + TagLen <= u
    /\ wixHtml' = [wixHtml EXCEPT !.converted.tags = @ \cup {t}]
    /\ WixFrame

\* markdown_to_html has returned; the function goes on to send its request
SendToWix ==
    /\ wixHtml.pc = "converting"
    /\ LET html_content == Validated(wixHtml.converted) IN
       wixHtml' = [wixHtml EXCEPT !.pc = "sent",
                                  !.html_content = html_content,
                                  !.sent = Truncated(html_content)]
    /\ WixFrame

WixNext ==
    \/ \E empty \in BOOLEAN, len \in HtmlLengths : convert_via_wix_api(empty, len)
    \/ \E t \in TagPositions : HtmlHasTag(t)
    \/ SendToWix

(***************************************************************************)
(* The frontend app: CacheHeadersMiddleware around the routes.  A request  *)
(* path is a sequence of pieces; a piece that starts with a dot is a dot   *)
(* followed by letters or digits.                                          *)
(***************************************************************************)
MaxPathLen == 6

PathPieces == {"/", "/static/", "main", ".deadbeef", ".js", ".JS", ".html"}

\* a URL path starts with a slash
PathStarts == {"/", "/static/"}

\* str.lower(), piece by piece
LowerPiece(piece) == IF piece = ".JS" THEN ".js" ELSE piece
LowerPath(path) == [i \in 1..Len(path) |-> LowerPiece(path[i])]

\* path.startswith("/static/")
StartsWithStatic(path) == path # <<>> /\ path[1] = "/static/"

\* path.endswith(ext), for an extension that is one of the pieces
EndsWith(path, ext) == path # <<>> /\ path[Len(path)] = ext

\* the pieces that begin with a dot, and the one that is a dot followed by
\* eight hexadecimal digits
DotPieces == {".deadbeef", ".js", ".JS", ".html"}
HashPieces == {".deadbeef"}

\* re.search(r'\.[a-f0-9]{8,}\.', path)
SearchHash(path) ==
    \E i \in 1..(Len(path) - 1) : path[i] \in HashPieces /\ path[i + 1] \in DotPieces

\* cacheable_extensions, as far as the pieces go
cacheable_extensions == {".js"}

Headers(cache_control, pragma, expires) ==
    [cache_control |-> cache_control, pragma |-> pragma, expires |-> expires]

NoHeaders == Headers(None, None, None)
NoCacheHeaders == Headers("no-cache, no-store, must-revalidate", "no-cache", "0")

\* FrontendServing.serve_frontend: the headers of what it returns
serve_frontend(index_exists) ==
    IF index_exists THEN NoCacheHeaders ELSE NoHeaders

\* CacheHeadersMiddleware.dispatch: the headers of the response it returns
\* for a request path and the response of call_next
dispatch(request_path, response) ==
    IF StartsWithStatic(request_path)
    THEN LET path == LowerPath(request_path)
             has_hash == SearchHash(path)
             is_cacheable_file == \E ext \in cacheable_extensions : EndsWith(path, ext)
         IN  IF is_cacheable_file
             THEN IF has_hash
                  THEN [response EXCEPT
                          !.cache_control = "public, max-age=31536000, immutable",
                          !.expires = "utcnow + 31536000 s"]
                  ELSE [response EXCEPT !.cache_control = "public, max-age=3600"]
             ELSE response
    ELSE IF request_path = <<"/">> \/ EndsWith(request_path, ".html")
    THEN NoCacheHeaders
    ELSE response

\* a request: its path, what served it, and the headers of its response
FrontendRequest(pc, path, route, response) ==
    [pc |-> pc, path |-> path, route |-> route, response |-> response]

NoFrontendRequest == FrontendRequest("idle", <<>>, None, NoHeaders)

FrontendFrame == /\ OtherFrame
                 /\ UNCHANGED <<syncVideo, seoApply, wixHtml, mdHtml>>

\* the client writes the path of its request
RequestPath(piece) ==
    /\ frontend.pc = "idle"
    /\ Len(frontend.path) < MaxPathLen
    /\ frontend.path = <<>> => piece \in PathStarts
    /\ frontend' = [frontend EXCEPT !.path = Append(@, piece)]
    /\ FrontendFrame

\* the request is served by serve_frontend, inside the middleware
ServeFrontend(index_exists) ==
    /\ frontend.pc = "idle"
    /\ frontend.path # <<>>
    /\ frontend' = [frontend EXCEPT !.pc = "served", !.route = "serve_frontend",
           !.response = dispatch(frontend.path, serve_frontend(index_exists))]
    /\ FrontendFrame

\* the request is served by another route or the static files mount, which
\* set no cache headers, inside the middleware
ServeOther ==
    /\ frontend.pc = "idle"
    /\ frontend.path # <<>>
    /\ frontend' = [frontend EXCEPT !.pc = "served", !.route = "other",
                                    !.response = dispatch(frontend.path, NoHeaders)]
    /\ FrontendFrame

FrontendNext ==
    \/ \E piece \in PathPieces : RequestPath(piece)
    \/ \E index_exists \in BOOLEAN : ServeFrontend(index_exists)
    \/ ServeOther

(***************************************************************************)
(* markdown_to_html, the line-by-line converter used when the markdown     *)
(* library is missing.  One action is one pass of the while loop; the      *)
(* output is the sequence of elements appended to result, without their    *)
(* text.                                                                   *)
(***************************************************************************)
MaxLines == 4

\* lines of the input ("<fence>" is the line of three backquotes)
MdLines ==
    {"", "  ", "<fence>", "# h", "### h", "- a", " * a", "- ", "1. a", "1. ",
     "> q", "text"}

\* lines[i].strip()
StripLine(raw) ==
    CASE raw = "  " -> ""
      [] raw = " * a" -> "* a"
      [] raw = "- " -> "-"
      [] raw = "1. " -> "1."
      [] OTHER -> raw

\* line.startswith(three backquotes)
IsFence(line) == line = "<fence>"
\* line.startswith('###'), line.startswith('#')
IsH3(line) == line = "### h"
IsH1(line) == line \in {"# h", "### h"}
\* line.startswith('- ') or line.startswith('* ')
IsUlItem(line) == line \in {"- a", "* a"}
\* re.match(r'^\d+\.\s+', line)
IsOlItem(line) == line = "1. a"
\* line.startswith('>')
IsQuote(line) == line = "> q"

\* the locals of a call
MdCall(pc, i, result, in_list, list_type, in_code_block) ==
    [pc |-> pc, i |-> i, result |-> result, in_list |-> in_list,
     list_type |-> list_type, in_code_block |-> in_code_block]

NoMdCall == MdCall("loop", 0, <<>>, FALSE, None, FALSE)

OpenTag(list_type) == IF list_type = "ul" THEN "<ul>" ELSE "<ol>"
CloseTag(list_type) == IF list_type = "ul" THEN "</ul>" ELSE "</ol>"

\* (mutant) a list item of the other type opens its list and leaves the
\* open one as it is
StartListKeepingOpen(c, type) ==
    IF ~c.in_list \/ c.list_type # type
    THEN [c EXCEPT !.result = Append(@, OpenTag(type)),
                   !.in_list = TRUE, !.list_type = type]
    ELSE c

\* lines 90-95 and 102-107: a list item opens a list of its type unless one
\* is open, after closing an open list of the other type
StartList(c, type) ==
    IF ~c.in_list \/ c.list_type # type
    THEN [c EXCEPT !.result = (IF c.in_list THEN Append(@, CloseTag(c.list_type))
                               ELSE @) \o <<OpenTag(type)>>,
                   !.in_list = TRUE, !.list_type = type]
    ELSE c

\* lines 72-75: a line that is not a list item closes the open list
CloseOpenList(c, line) ==
    IF c.in_list /\ ~(IsUlItem(line) \/ IsOlItem(line))
    THEN [c EXCEPT !.result = Append(@, CloseTag(c.list_type)),
                   !.in_list = FALSE, !.list_type = None]
    ELSE c

Emit(c, element) == [c EXCEPT !.result = Append(@, element)]

\* one pass of the loop, for the line raw
LoopBody(c, raw) ==
    LET line == StripLine(raw)
        next == [c EXCEPT !.i = @ + 1]
    IN  IF IsFence(line)
        THEN IF ~c.in_code_block THEN [next EXCEPT !.in_code_block = TRUE]
             ELSE [Emit(next, "<pre>") EXCEPT !.in_code_block = FALSE]
        ELSE IF c.in_code_block THEN next
        ELSE LET closed == CloseOpenList(next, line) IN
             IF line = "" THEN closed
             ELSE IF IsH3(line) THEN Emit(closed, "<h3>")
             ELSE IF IsH1(line) THEN Emit(closed, "<h1>")
             ELSE IF IsUlItem(line) THEN Emit(StartList(closed, "ul"), "<li>")
             ELSE IF IsOlItem(line) THEN Emit(StartList(closed, "ol"), "<li>")
             ELSE IF IsQuote(line) THEN Emit(closed, "<blockquote>")
             ELSE Emit(closed, "<p>")

\* lines 133-139, after the loop
AfterLoop(c) ==
    LET closed == IF c.in_list THEN Emit(c, CloseTag(c.list_type)) ELSE c
    IN  [(IF closed.result = <<>> THEN Emit(closed, "<p>") ELSE closed)
            EXCEPT !.pc = "returned"]

MdFrame == /\ OtherFrame
           /\ UNCHANGED <<syncVideo, seoApply, wixHtml, frontend>>

\* the loop takes the next line of the input
ConvertLine(raw) ==
    /\ mdHtml.pc = "loop"
    /\ mdHtml.i < MaxLines
    /\ mdHtml' = LoopBody(mdHtml, raw)
    /\ MdFrame

\* the input has no more lines
markdown_to_html ==
    /\ mdHtml.pc = "loop"
    /\ mdHtml.i > 0
    /\ mdHtml' = AfterLoop(mdHtml)
    /\ MdFrame

MdNext ==
    \/ \E raw \in MdLines : ConvertLine(raw)
    \/ markdown_to_html

(***************************************************************************)
(* The story specification.                                                *)
(***************************************************************************)
NoExc == RuntimeError("")

StoryInit ==
    /\ storyTasks = [t \in TaskIds |-> NoTask]
    /\ execPc = [t \in TaskIds |-> "none"]
    /\ execKind = [t \in TaskIds |-> "none"]
    /\ execScenes = [t \in TaskIds |-> 0]
    /\ cbCount = [t \in TaskIds |-> 0]
    /\ writes = [t \in TaskIds |-> <<>>]
    /\ lastUpdate = [t \in TaskIds |-> NoUpdate]
    /\ nResult = [t \in TaskIds |-> 0]
    /\ nError = [t \in TaskIds |-> 0]
    /\ lastExc = [t \in TaskIds |-> NoExc]
    /\ nRuns = [t \in TaskIds |-> 0]
    /\ storyResp = StoryResponse(0, 0)
    /\ storyReq = NoStoryRequest
    /\ lastSub = [t \in TaskIds |-> 0]
    /\ orderly = [t \in TaskIds |-> TRUE]
    /\ blogTasks = [t \in BlogIds |-> NoBlogTask]
    /\ blogAssets = [t \in BlogIds |-> 0]
    /\ blogResp = NoExchange
    /\ blogSave = "none"
    /\ dashboard_cache = EmptyDict
    /\ dashboard_cache_ts = EmptyDict
    /\ clock = 0
    /\ environ = None
    /\ lastSet = [u \in CacheUsers |-> NeverSet]
    /\ cacheCall = NoCacheCall
    /\ calls = [th \in Threads |-> IdleCall]
    /\ stampOf = [u \in CacheUsers |-> None]
    /\ usage = [stability_calls |-> 0, total_calls |-> 0]
    /\ imgResp = NoImageRequest
    /\ syncVideo = NoSyncRun
    /\ seoApply = NoSeoCall
    /\ wixHtml = NoWixCall
    /\ frontend = NoFrontendRequest
    /\ mdHtml = NoMdCall

Flags(n) == [1..n -> BOOLEAN]

StoryNext ==
    \/ \E cu \in CurrentUsers, nS, nI, nA \in 0..MaxScenes :
           generate_story_video_async(cu, nS, nI, nA)
    \/ \E cu \in CurrentUsers : generate_complete_story_video(cu)
    \/ \E t \in TaskIds :
        \/ AsyncBegin(t)
        \/ \E imgOk, audOk \in Flags(execScenes[t]) : AsyncResolveAssets(t, imgOk, audOk)
        \/ \E sub \in SubProgress : AsyncProgress(t, sub)
        \/ AsyncVideoDone(t)
        \/ \E exc \in Exceptions : AsyncVideoFails(t, exc)
        \/ CompleteBegin(t)
        \/ CompleteAnnouncePremise(t)
        \/ PremiseDone(t)
        \/ \E isList \in BOOLEAN : OutlineDone(t, isList)
        \/ \E sub \in SubProgress : ImageProgress(t, sub)
        \/ ImagesDone(t)
        \/ \E sub \in SubProgress : AudioProgress(t, sub)
        \/ AudioDone(t)
        \/ \E n \in 0..MaxScenes : \E imgOk, audOk \in Flags(n) : PrepareAssets(t, n, imgOk, audOk)
        \/ \E sub \in SubProgress : VideoProgress(t, sub)
        \/ VideoDone(t)
        \/ \E exc \in Exceptions : StageFails(t, exc)

SpecStory == StoryInit /\ [][StoryNext]_vars

(***************************************************************************)
(* The blog specification.                                                 *)
(***************************************************************************)
BlogNext ==
    \/ \E cu \in CurrentUsers, fails \in BOOLEAN : start_research(cu, fails)
    \/ \E cu \in CurrentUsers, fails \in BOOLEAN : start_outline_generation(cu, fails)
    \/ \E cu \in CurrentUsers, valid, fails \in BOOLEAN :
           start_content_generation(cu, valid, fails)
    \/ \E cu \in CurrentUsers, words \in TargetWords, fails \in BOOLEAN :
           start_medium_generation(cu, words, fails)
    \/ \E t \in BlogIds : BlogTaskRuns(t)
    \/ \E t \in BlogIds, result \in Results : BlogTaskCompletes(t, result)
    \/ \E t \in BlogIds, failure \in Failures : BlogTaskFails(t, failure)
    \/ \E tid \in PollIds : get_research_status(tid)
    \/ \E tid \in PollIds : get_outline_status(tid)
    \/ \E tid \in PollIds : rewrite_status(tid)
    \/ \E tid \in PollIds, cu \in CurrentUsers, saveFails \in BOOLEAN :
           content_generation_status(tid, cu, saveFails)
    \/ \E tid \in PollIds, cu \in CurrentUsers, saveFails \in BOOLEAN :
           medium_generation_status(tid, cu, saveFails)

SpecBlog == StoryInit /\ [][BlogNext]_vars

(***************************************************************************)
(* The cache specification.                                                *)
(***************************************************************************)
SpecCache == StoryInit /\ [][CacheNext]_vars

\* the cache under concurrent requests
SpecCacheThreads == StoryInit /\ [][ConcNext]_vars

\* the image endpoint
SpecImages == StoryInit /\ [][ImgNext]_vars

\* the endpoints with auxiliary side effects, for requests whose primary
\* operation succeeds: image requests whose first attempt gets its image and
\* its response, and the polls of a content task that runs to completion
SideEffectNext ==
    \/ \E provider \in Providers :
        \E a1 \in {a \in LateOutcomes : a.raises = "none"} :
        \E a2 \in SecondOutcomes(provider, a1) :
            generate(Identified, provider, a1, a2)
    \/ start_content_generation(Identified, TRUE, FALSE)
    \/ \E t \in BlogIds : BlogTaskRuns(t)
    \/ \E t \in BlogIds, result \in Results : BlogTaskCompletes(t, result)
    \/ \E tid \in PollIds, cu \in {UserNone, Identified}, saveFails \in BOOLEAN :
           content_generation_status(tid, cu, saveFails)
    \/ \E tid \in PollIds, cu \in {UserNone, Identified}, saveFails \in BOOLEAN :
           medium_generation_status(tid, cu, saveFails)

SpecSideEffects == StoryInit /\ [][SideEffectNext]_vars

\* the synchronous video endpoint
SpecSyncVideo == StoryInit /\ [][SyncNext]_vars

\* apply_recommendations
SpecSeoApply == StoryInit /\ [][SeoNext]_vars

\* convert_via_wix_api
SpecWixHtml == StoryInit /\ [][WixNext]_vars

\* the frontend app
SpecFrontend == StoryInit /\ [][FrontendNext]_vars

\* markdown_to_html
SpecMarkdown == StoryInit /\ [][MdNext]_vars

(***************************************************************************)
(* Claims about the story-video executors.                                 *)
(***************************************************************************)
Ran == {t \in TaskIds : execPc[t] \notin {"none", "scheduled"}}
Returned == {t \in TaskIds : execPc[t] = "done"}
QuotaCodes == {429, 402}

\* C1: the statuses an executor writes for a task are processing (once or
\* more) and then exactly one terminal status, after which it writes nothing:
\* the log is a prefix of <<processing, completed>> or <<processing, failed>>,
\* and it is complete when the run has returned.
C1_StatusSequence ==
    \A t \in TaskIds :
        /\ writes[t] \in { <<>>, <<"processing">>,
                           <<"processing", "completed">>,
                           <<"processing", "failed">> }
        /\ t \in Ran => writes[t] # <<>>
        /\ t \in Returned =>
              /\ Len(writes[t]) = 2
              /\ storyTasks[t].status = writes[t][2]

C1_Witness ==
    \E t \in TaskIds :
        /\ execKind[t] = "complete"
        /\ writes[t] = <<"processing", "completed">>
        /\ t \in Returned

\* C2: when a step of an executor raises, the run ends with a failed update
\* that carries the exception's message, and no run that has returned leaves
\* its task pending or processing.
C2_FailureIsTerminal ==
    \A t \in TaskIds :
        /\ lastExc[t] # NoExc =>
              /\ t \in Returned
              /\ lastUpdate[t].status = "failed"
              /\ "error" \in lastUpdate[t].given
              /\ lastUpdate[t].error = lastExc[t].msg
              /\ storyTasks[t].status = "failed"
              /\ storyTasks[t].error = lastExc[t].msg
        /\ t \in Returned => storyTasks[t].status \in Terminal

C2_Witness ==
    \E t \in TaskIds :
        /\ lastExc[t] = GenericError
        /\ execKind[t] = "complete"
        /\ storyTasks[t].status = "failed"

\* C3: an update supplies a result exactly when it writes completed and an
\* error exactly when it writes failed; a task gets at most one result and at
\* most one error, and never both.
C3_ResultAndError ==
    \A t \in TaskIds :
        /\ lastUpdate[t] # NoUpdate =>
              /\ "result" \in lastUpdate[t].given <=> lastUpdate[t].status = "completed"
              /\ "error" \in lastUpdate[t].given <=> lastUpdate[t].status = "failed"
        /\ nResult[t] + nError[t] <= 1
        /\ storyTasks[t].status = "completed" <=> nResult[t] = 1
        /\ storyTasks[t].status = "failed" <=> nError[t] = 1

C3_Witness ==
    \E t \in TaskIds :
        /\ lastUpdate[t].status = "completed"
        /\ "result" \in storyTasks[t].given
        /\ nResult[t] = 1

\* C4: when a stage fails with a subscription-limit error that carries a
\* status code (429 or 402) and structured data, the failed update records
\* that error_status and error_data in the registry.
C4_QuotaErrorRecorded ==
    \A t \in TaskIds :
        lastExc[t].status_code \in QuotaCodes =>
            /\ {"error_status", "error_data"} \subseteq lastUpdate[t].given
            /\ storyTasks[t].error_status = lastExc[t].status_code
            /\ storyTasks[t].error_data = lastExc[t].data

(***************************************************************************)
(* Claims about the blog router.                                           *)
(***************************************************************************)
StatusOps == {"research/status", "outline/status", "content/status",
              "generate/medium/status", "rewrite/status"}
TranslatingOps == {"research/status", "content/status", "generate/medium/status"}
StartOps == {"research/start", "outline/start", "content/start",
             "generate/medium/start"}

\* the status dict the last poll read
Polled == blogResp.seen
\* its error_data when that is a dict, the empty dict otherwise
PolledData ==
    IF "error_data" \in Polled.keys /\ Polled.error_data.t = "dict"
    THEN Polled.error_data.d ELSE EmptyDict
\* its error, or else the error its error_data carries, or else None
PolledError ==
    IF "error" \in Polled.keys THEN Polled.error
    ELSE IF "error_data" \in Polled.keys /\ Polled.error_data.t = "str"
              /\ Polled.error_data.s # ""
         THEN Polled.error_data.s
         ELSE Get(PolledData, "error", None)
PolledQuotaFailure ==
    /\ blogResp.op \in StatusOps
    /\ Polled.status = "failed"
    /\ "error_status" \in Polled.keys
    /\ Polled.error_status \in QuotaCodes
IsQuotaShape(resp) ==
    /\ resp.kind = "quota"
    /\ DOMAIN resp.body = {"error", "message", "provider", "usage_info"}

\* C5: on every status endpoint, a poll of a task that failed with
\* error_status 429 or 402 is answered with that status code and the body
\* {error, message, provider, usage_info}, never with the raw task status.
C5_QuotaFailureTranslated ==
    PolledQuotaFailure =>
        /\ blogResp.resp.code = Polled.error_status
        /\ IsQuotaShape(blogResp.resp)

\* C6: on the research, content and medium status endpoints, a failed task
\* with error_status S in {429, 402} and a dict error_data D that has provider
\* and no usage_info is answered with code S, provider = D.provider,
\* usage_info.provider = D.provider and usage_info[k] = D[k] for every counter
\* k of D.
C6_UsageInfoFromErrorData ==
    ( /\ PolledQuotaFailure
      /\ blogResp.op \in TranslatingOps
      /\ "error_data" \in Polled.keys
      /\ Polled.error_data.t = "dict"
      /\ "provider" \in DOMAIN PolledData
      /\ "usage_info" \notin DOMAIN PolledData )
    => /\ blogResp.resp.code = Polled.error_status
       /\ IsQuotaShape(blogResp.resp)
       /\ blogResp.resp.body.provider = PolledData.provider
       /\ blogResp.resp.body.usage_info.provider = PolledData.provider
       /\ \A k \in {"current_tokens", "requested_tokens", "limit", "current_calls"} :
             k \in DOMAIN PolledData =>
                 /\ k \in DOMAIN blogResp.resp.body.usage_info
                 /\ blogResp.resp.body.usage_info[k] = PolledData[k]

C6_Witness ==
    /\ blogResp.op = "content/status"
    /\ PolledQuotaFailure
    /\ Polled.error_status = 429
    /\ PolledData = [provider |-> "gemini", current_tokens |-> 100, limit |-> 50]
    /\ blogResp.resp.code = 429
    /\ blogResp.resp.body.usage_info.current_tokens = 100

\* C7 as stated: in a quota-error response, a field that error_data lacks
\* (provider, error_type or a counter) is absent from usage_info.
C7_AbsentFieldsOmitted ==
    (PolledQuotaFailure /\ blogResp.resp.kind = "quota") =>
        \A k \in {"provider", "error_type", "current_tokens", "requested_tokens",
                  "limit", "current_calls"} :
            k \notin DOMAIN PolledData => k \notin DOMAIN blogResp.resp.body.usage_info

\* C7 as amended: a usage_info stored in error_data is passed on unchanged;
\* otherwise usage_info has exactly provider, message, error_type and the
\* counters error_data has, each counter with error_data's value, provider and
\* error_type with error_data's value or the placeholder "unknown", and message
\* with the stored error (None when there is none).
C7_CountersOmittedPlaceholdersFilled ==
    (PolledQuotaFailure /\ blogResp.resp.kind = "quota") =>
        LET usage_info == blogResp.resp.body.usage_info
            counters == {"current_tokens", "requested_tokens", "limit", "current_calls"}
        IN  IF "usage_info" \in DOMAIN PolledData /\ PolledData.usage_info # EmptyDict
            THEN usage_info = PolledData.usage_info
            ELSE /\ DOMAIN usage_info = {"provider", "message", "error_type"}
                                         \cup (counters \cap DOMAIN PolledData)
                 /\ \A k \in counters \cap DOMAIN PolledData : usage_info[k] = PolledData[k]
                 /\ \A k \in {"provider", "error_type"} :
                       usage_info[k] = IF k \in DOMAIN PolledData THEN PolledData[k]
                                       ELSE "unknown"
                 /\ usage_info.message = PolledError

C7_Witness ==
    /\ PolledQuotaFailure
    /\ blogResp.resp.kind = "quota"
    /\ DOMAIN PolledData = {"error_type", "requested_tokens", "current_calls",
                            "message", "error"}
    /\ DOMAIN blogResp.resp.body.usage_info =
          {"provider", "message", "error_type", "requested_tokens", "current_calls"}
    /\ blogResp.resp.body.usage_info.provider = "unknown"

\* C8: on every status endpoint, a failed task whose error_status is absent
\* or is neither 429 nor 402 is answered 200 with the unmodified task status.
C8_OtherFailuresPassThrough ==
    ( /\ blogResp.op \in StatusOps
      /\ Polled.status = "failed"
      /\ ("error_status" \notin Polled.keys \/ Polled.error_status \notin QuotaCodes) )
    => /\ blogResp.resp.code = 200
       /\ blogResp.resp.raised = "none"
       /\ blogResp.resp.kind = "status"
       /\ blogResp.resp.body = Polled

C8_Witness ==
    /\ blogResp.op = "generate/medium/status"
    /\ Polled.status = "failed"
    /\ Polled.error_status = 500
    /\ Polled.error = "task failed"
    /\ blogResp.resp.code = 200

\* C9: every status endpoint answers 404 for a task id the registry does not
\* know, whatever other tasks exist.
C9_UnknownIdIs404 ==
    (blogResp.op \in StatusOps /\ Polled = NoBlogTask) =>
        /\ blogResp.resp.code = 404
        /\ blogResp.resp.raised = "HTTPException"

C9_Witness ==
    /\ blogResp.op = "outline/status"
    /\ blogResp.tid \notin BlogIds
    /\ blogResp.resp.code = 404
    /\ \E t \in BlogIds : blogTasks[t].status = "failed"

\* the caller identity is missing or carries no user id
NoIdentity(cu) ==
    cu.isNone \/ "id" \notin cu.keys \/ cu.idNone \/ cu.id = <<>>

\* C10: a start endpoint that requires a caller identity answers 401 when the
\* identity is missing or carries no user id, and starts no task.
C10_MissingIdentityIs401 ==
    (blogResp.op \in StartOps /\ NoIdentity(blogResp.user)) =>
        /\ blogResp.resp.code = 401
        /\ blogResp.started = 0

(***************************************************************************)
(* Claims about the start endpoints.                                       *)
(***************************************************************************)
\* the caller dictionary carries an id that is a string with a character
\* other than a blank in it
HasRealId(cu) ==
    /\ ~cu.isNone
    /\ "id" \in cu.keys
    /\ ~cu.idNone
    /\ \E i \in 1..Len(cu.id) : cu.id[i] # " "

\* C11: require_authenticated_user returns a user id only for a caller
\* dictionary with a real, non-blank id, and the id returned is non-empty and
\* has no blank at either end; for a missing dictionary, or an id that is
\* absent, None, empty or blank, it raises 401 (which the handler passes on).
C11_IdentityExtraction ==
    storyReq.op # "none" =>
        LET cu == storyReq.user
            r == storyReq.auth
        IN  /\ r.ok => /\ HasRealId(cu)
                       /\ r.user_id # <<>>
                       /\ Head(r.user_id) # " "
                       /\ r.user_id[Len(r.user_id)] # " "
            /\ ~HasRealId(cu) => /\ ~r.ok
                                 /\ r.code = 401
                                 /\ storyResp = StoryResponse(401, 0)

\* the request bodies the validation of a start endpoint is to turn down
C12_Malformed ==
    /\ blogResp.op \in {"content/start", "generate/medium/start"}
    /\ blogResp.malformed
    /\ HasRealId(blogResp.user)

\* C12: a start request with malformed input is answered 400 and creates no
\* task (an identified caller's content start whose sections or persona fail
\* validation, or medium start with globalTargetWords above 1000).
C12_MalformedIs400 ==
    C12_Malformed => /\ blogResp.resp.code = 400
                     /\ blogResp.started = 0

\* the same for generate-video-async: no scenes, or list lengths that differ
C12_StoryMalformedIs400 ==
    ( /\ storyReq.op = "generate-video-async"
      /\ storyReq.auth.ok
      /\ storyReq.no_scenes \/ storyReq.mismatch ) =>
        storyResp = StoryResponse(400, 0)

\* a step that schedules a run, creates a task or answers 200
StoryRunStarts ==
    \/ nRuns' # nRuns
    \/ \E t \in TaskIds : (storyTasks[t] = NoTask) /\ (storyTasks'[t] # NoTask)
    \/ (storyResp' # storyResp) /\ (storyResp'.code = 200)

C14_ProgressInRange ==
    \A t \in TaskIds :
        /\ "progress" \in lastUpdate[t].given =>
               lastUpdate[t].progress \in 0..1000
        /\ storyTasks[t].progress \in 0..1000

\* C15: in a run of execute_complete_video_generation whose stages report
\* sub-progress within [0, 100] that does not decrease, no update lowers the
\* progress a poller reads, and the completed task reads 100.
C15_ProgressNonDecreasing ==
    /\ [][ \A t \in TaskIds :
              (execKind'[t] = "complete" /\ orderly'[t]) =>
                  storyTasks'[t].progress >= storyTasks[t].progress ]_vars
    /\ [](\A t \in TaskIds :
              (execKind[t] = "complete" /\ storyTasks[t].status = "completed") =>
                  storyTasks[t].progress = 1000)

\* the audio stage of an orderly run has reported 100 in its last callback
C15_Witness ==
    \E t \in TaskIds :
        /\ At(t, "complete", "audio")
        /\ orderly[t]
        /\ cbCount[t] = MaxCallbacks
        /\ lastSub[t] = 100
        /\ storyTasks[t].progress = 700

\* the stages that report through a progress callback
CallbackStages ==
    { <<"async", "video">>, <<"complete", "images">>,
      <<"complete", "audio">>, <<"complete", "video">> }

\* the progress written when the stage begins (for the video stage of the
\* async task, which begins without an update, the one written before it)
StageStart(stage) ==
    CASE stage = <<"async", "video">> -> 20
      [] stage = <<"complete", "images">> -> 300
      [] stage = <<"complete", "audio">> -> 500
      [] stage = <<"complete", "video">> -> 750

\* the progress written when the next stage begins or the task completes
StageEnd(stage) ==
    CASE stage = <<"async", "video">> -> 1000
      [] stage = <<"complete", "images">> -> 500
      [] stage = <<"complete", "audio">> -> 700
      [] stage = <<"complete", "video">> -> 1000

\* the stage task t is in has made a callback with a sub-progress in [0, 100]
Reported(t, stage) ==
    /\ At(t, stage[1], stage[2])
    /\ cbCount[t] > 0
    /\ lastSub[t] \in 0..100

\* the updates around the stages write the values StageStart and StageEnd name
StageBoundsWritten ==
    \A t \in TaskIds :
        /\ \A stage \in CallbackStages :
               (At(t, stage[1], stage[2]) /\ cbCount[t] = 0) =>
                   storyTasks[t].progress = StageStart(stage)
        /\ (At(t, "complete", "audio") /\ cbCount[t] = 0) =>
               storyTasks[t].progress = StageEnd(<<"complete", "images">>)
        /\ (At(t, "complete", "prepare")) =>
               storyTasks[t].progress = StageEnd(<<"complete", "audio">>)
        /\ storyTasks[t].status = "completed" =>
               storyTasks[t].progress = StageEnd(<<execKind[t], "video">>)

\* C16 (as claimed): every stage's callback forwards
\* stage_start + (sub_progress / 100) * (stage_end - stage_start).
C16_RescaleToStageBounds ==
    /\ StageBoundsWritten
    /\ \A t \in TaskIds : \A stage \in CallbackStages :
           Reported(t, stage) =>
               (lastUpdate[t].progress - StageStart(stage)) * 100
                   = lastSub[t] * (StageEnd(stage) - StageStart(stage))

\* the range a stage's callback spreads sub-progress 0..100 over
CallbackRange(stage) ==
    CASE stage = <<"async", "video">> -> <<50, 950>>
      [] stage = <<"complete", "images">> -> <<300, 500>>
      [] stage = <<"complete", "audio">> -> <<500, 700>>
      [] stage = <<"complete", "video">> -> <<750, 950>>

\* C16 (amended): each callback forwards lo + (sub_progress / 100) * (hi - lo).
\* For the image and audio stages lo and hi are the stage's start and end;
\* the video stage's callback ends at 95, below the 100 of the completed
\* update, and the async task's callback runs from 5 (above the 2 written
\* before it) to 95.
C16_RescaleToCallbackRange ==
    /\ StageBoundsWritten
    /\ \A t \in TaskIds : \A stage \in CallbackStages :
           Reported(t, stage) =>
               LET lo == CallbackRange(stage)[1]
                   hi == CallbackRange(stage)[2]
               IN  (lastUpdate[t].progress - lo) * 100 = lastSub[t] * (hi - lo)
    /\ \A stage \in {<<"complete", "images">>, <<"complete", "audio">>} :
           CallbackRange(stage) = <<StageStart(stage), StageEnd(stage)>>

\* the video stage of the complete pipeline has reported sub-progress 100,
\* and 95 was written
C16_Witness ==
    \E t \in TaskIds :
        /\ Reported(t, <<"complete", "video">>)
        /\ lastSub[t] = 100
        /\ lastUpdate[t].progress = 950
        /\ storyTasks[t].progress = 950

(***************************************************************************)
(* Claims about the dashboard cache.  A step is a call of f when it leaves *)
(* cacheCall naming f and changes cacheCall or the cache.                  *)
(***************************************************************************)
CacheChanged ==
    \/ cacheCall' # cacheCall
    \/ dashboard_cache' # dashboard_cache
    \/ dashboard_cache_ts' # dashboard_cache_ts

IsCall(op) == (cacheCall'.op = op) /\ CacheChanged

\* the flag values the bypass is documented for
BypassValues == {"1", "true", "yes", "on"}

\* what a get of user id u is to return at time now: the value of the latest
\* set of u, if no clear has undone it and less than 600 seconds have passed
Fresh(u, now) ==
    IF lastSet[u].live /\ (now - lastSet[u].at < 600) THEN lastSet[u].data ELSE None

\* C17: with the bypass off, get_cached_dashboard(u) returns the value of the
\* most recent set_cached_dashboard(u, v) while less than 600 seconds have
\* passed since that set and no clear undid it, and None from 600 seconds on,
\* without any eviction call; an overwrite restarts the 600 seconds.  (A clear
\* with no user id or an empty one counts as a clear of every user.)
C17_TtlWindow ==
    [][ (IsCall("get") /\ ~Nocache(environ)) =>
            cacheCall'.ret = Fresh(cacheCall'.user_id, clock) ]_vars

\* u1's entry was overwritten one second before the end of its first window;
\* at the end of that window a get returned the second value
C17_Witness ==
    /\ cacheCall = CacheCall("get", "u1", None, FALSE, "d2")
    /\ clock = 600
    /\ lastSet["u1"] = SetAt("d2", 599)

\* C18: a get_cached_dashboard(u) that finds u's entry expired removes u from
\* the value map and from the timestamp map.
C18_ExpiredEntryEvicted ==
    [][ ( /\ IsCall("get")
          /\ ~Nocache(environ)
          /\ cacheCall'.user_id \in DOMAIN dashboard_cache
          /\ clock - dashboard_cache_ts[cacheCall'.user_id] >= 600 ) =>
            /\ cacheCall'.ret = None
            /\ cacheCall'.user_id \notin DOMAIN dashboard_cache'
            /\ cacheCall'.user_id \notin DOMAIN dashboard_cache_ts' ]_vars

C20_ClearOneOrAll ==
    [][ IsCall("clear") =>
          LET u == cacheCall'.user_id IN
          IF u = None
          THEN dashboard_cache' = EmptyDict /\ dashboard_cache_ts' = EmptyDict
          ELSE /\ dashboard_cache' = Pop(dashboard_cache, u)
               /\ dashboard_cache_ts' = Pop(dashboard_cache_ts, u) ]_vars

\* C21: under any interleaving of set, clear and get calls for one user, the
\* mutating calls are atomic: while no call is in progress the value map and
\* the timestamp map hold the same users, and a get that returned a value
\* tested the timestamp written by the set that stored that value.
C21_MutationsAtomic ==
    /\ Running = {} => DOMAIN dashboard_cache = DOMAIN dashboard_cache_ts
    /\ \A th \in Threads :
           ( /\ calls[th].op = "get"
             /\ calls[th].pc = "idle"
             /\ calls[th].ret # None ) => calls[th].ret = calls[th].stamp

(***************************************************************************)
(* Claims about POST /api/images/generate.                                 *)
(***************************************************************************)
\* C23: a request calls the image provider at most twice; a second call is
\* made only after a failed first attempt of a request that named a provider,
\* and it is made with the provider cleared; when the last attempt fails the
\* answer is 500.
C23_AtMostOneRetry ==
    LET at == imgResp.attempts IN
    /\ Len(at) <= 2
    /\ Len(at) = 2 =>
           /\ at[1].outcome.raises # "none"
           /\ imgResp.provider # None
           /\ at[1].provider = imgResp.provider
           /\ at[2].provider = None
    /\ (at # <<>> /\ at[Len(at)].outcome.raises # "none") =>
           imgResp.resp = ImageResponse(500, "detail", None)

\* both attempts of a request that named a provider failed in generate_image
C23_Witness ==
    /\ Len(imgResp.attempts) = 2
    /\ imgResp.attempts[1].outcome.raises = "generate"
    /\ imgResp.attempts[2].outcome.raises = "generate"
    /\ imgResp.provider = "stability"
    /\ imgResp.resp.code = 500

\* C24: a request increments the usage counters at most once, and only when
\* it is answered with the image; a request answered 500 has consumed none.
C24_UsageOnlyOnSuccess ==
    /\ imgResp.commits <= 1
    /\ imgResp.commits > 0 => imgResp.resp.code = 200
    /\ usage.stability_calls = usage.total_calls

(***************************************************************************)
(* Claims about the recording of finished blogs.                           *)
(***************************************************************************)
\* C25: however often the content or medium-generation status of a completed
\* task is polled, the finished blog is recorded in the asset store at most
\* once per task.
C25_BlogRecordedOnce ==
    \A t \in BlogIds : blogAssets[t] <= 1

(***************************************************************************)
(* Claims about auxiliary side effects.                                    *)
(***************************************************************************)
\* C22: a failing side effect does not change the primary outcome.  An image
\* attempt that got its image and built its response is the request's last
\* attempt and is answered with the image, whatever the file save, the asset
\* library or the usage tracking raised; a content or medium status poll
\* whose recording of the finished blog raised answers with the task's
\* status.
C22_SideEffectsDoNotFail ==
    /\ \A i \in 1..Len(imgResp.attempts) :
           imgResp.attempts[i].outcome.raises = "none" =>
               /\ i = Len(imgResp.attempts)
               /\ imgResp.resp.code = 200
               /\ imgResp.resp.kind = "image"
    /\ blogSave = "raised" =>
           /\ blogResp.op \in {"content/status", "generate/medium/status"}
           /\ blogResp.seen.status = "completed"
           /\ blogResp.resp = Return("status", blogResp.seen)

\* an image request whose file save and usage tracking raised was answered
\* with the image, and a poll whose recording raised with the status
C22_Witness ==
    /\ Len(imgResp.attempts) = 1
    /\ imgResp.attempts[1].outcome.save = "raises"
    /\ imgResp.attempts[1].outcome.track = "raises"
    /\ imgResp.resp.code = 200
    /\ blogSave = "raised"
    /\ blogResp.resp.code = 200

(***************************************************************************)
(* Claims about the single functions.                                      *)
(***************************************************************************)
\* the entry is set (it is not None)
IsSet(path) == path # NoPath

\* C26: at the call to the video service the four lists have the same
\* length, index i of each refers to the same scene, and exactly one of
\* video_paths[i] and image_paths[i] is set.
C26_ListsAligned ==
    syncVideo.pc = "called" =>
        LET r == syncVideo
            n == Len(r.valid_scenes)
        IN  /\ Len(r.video_paths) = n
            /\ Len(r.image_paths) = n
            /\ Len(r.audio_paths) = n
            /\ \A i \in 1..n :
                   /\ IsSet(r.video_paths[i]) # IsSet(r.image_paths[i])
                   /\ r.audio_paths[i].scene = r.valid_scenes[i]
                   /\ IsSet(r.video_paths[i]) =>
                          r.video_paths[i].scene = r.valid_scenes[i]
                   /\ IsSet(r.image_paths[i]) =>
                          r.image_paths[i].scene = r.valid_scenes[i]

\* the call returned success for a payload with recommendations
Applied == seoApply.pc = "returned" /\ seoApply.success /\ seoApply.recommendations

\* C27: a successful call with recommendations returns one
\* section per input section, in input order, each with the input section's
\* identifier, or section_<position> when the input has none.
C27_OnePerInputWithItsId ==
    Applied =>
        /\ Len(seoApply.result) = Len(seoApply.sections)
        /\ \A n \in 1..Len(seoApply.sections) :
               seoApply.result[n].id =
                   OrStr(seoApply.sections[n].id,
                      OrStr(seoApply.sections[n].section_id, SectionN(n)))

\* What does hold: a successful call with recommendations returns one section
\* per input section, in input order, each with the input section's id (or
\* its section_id, or section_<position>) stripped of the whitespace around
\* it, whatever the text generator returned.
OnePerInputWithStrippedId ==
    Applied =>
        /\ Len(seoApply.result) = Len(seoApply.sections)
        /\ \A n \in 1..Len(seoApply.sections) :
               seoApply.result[n].id =
                   Strip(OrStr(seoApply.sections[n].id,
                            OrStr(seoApply.sections[n].section_id, SectionN(n))))

\* the "</p>" occurrences of the HTML that end at or before position 9,900
TagsBeforeCut == {t \in wixHtml.html_content.tags : t + 4 <= 9900}

\* where the claim says HTML over the limit is cut
CutPosition == IF TagsBeforeCut = {} THEN 9900 ELSE Greatest(TagsBeforeCut) + 4

\* C28: the HTML sent to the Wix API is never longer than 10,000 characters:
\* HTML over the limit is cut after the last "</p>" before position 9,900 (at
\* position 9,900 when there is none) and the 65 characters of the
\* truncation notice are appended; HTML at or under the limit is sent
\* unchanged.
C28_SentHtmlWithinLimit ==
    wixHtml.pc = "sent" =>
        /\ wixHtml.sent.len <= 10000
        /\ wixHtml.html_content.len <= 10000 => wixHtml.sent = wixHtml.html_content
        /\ wixHtml.html_content.len > 10000 =>
               /\ wixHtml.sent.len = CutPosition + 65
               /\ wixHtml.sent.tags =
                      {t \in wixHtml.html_content.tags : t + 4 <= CutPosition}
                          \cup {CutPosition + 61}

\* HTML over the limit with closing paragraph tags on both sides of
\* position 9,900 was cut after the last one before it
C28_Witness ==
    /\ wixHtml.pc = "sent"
    /\ wixHtml.html_content.len > 10000
    /\ {5000, 9896, 9997} \subseteq wixHtml.html_content.tags
    /\ wixHtml.sent.len = 9965

\* the response has a public max-age
PublicMaxAge ==
    frontend.response.cache_control \in
        {"public, max-age=31536000, immutable", "public, max-age=3600"}

\* the request path is "/" or ends in .html
HtmlPath == frontend.path = <<"/">> \/ EndsWith(frontend.path, ".html")

\* the file name of the request path: what follows its last slash
RECURSIVE FileName(_)
FileName(path) ==
    IF path = <<>> \/ path[Len(path)] \in {"/", "/static/"} THEN <<>>
    ELSE Append(FileName(SubSeq(path, 1, Len(path) - 1)), path[Len(path)])

\* C29: every response to a request whose path is "/" or ends in .html has
\* the no-cache headers and no public max-age; a public max-age is set only
\* for /static/ paths with a cacheable extension, one year and immutable when
\* the file name carries a hex hash of eight or more characters, one hour
\* otherwise.
C29_HtmlNeverCached ==
    frontend.pc = "served" =>
        /\ HtmlPath =>
               /\ frontend.response.cache_control = "no-cache, no-store, must-revalidate"
               /\ ~PublicMaxAge
        /\ PublicMaxAge =>
               /\ StartsWithStatic(frontend.path)
               /\ EndsWith(LowerPath(frontend.path), ".js")
               /\ frontend.response.cache_control =
                      IF SearchHash(FileName(LowerPath(frontend.path)))
                      THEN "public, max-age=31536000, immutable"
                      ELSE "public, max-age=3600"

\* The part about the paths outside /static/ and about the max-age does hold
\* when the hash is looked for in the whole path.
FrontendHeadersOutsideStatic ==
    frontend.pc = "served" =>
        /\ (HtmlPath /\ ~StartsWithStatic(frontend.path)) =>
               frontend.response = NoCacheHeaders
        /\ HtmlPath => ~PublicMaxAge
        /\ PublicMaxAge =>
               /\ StartsWithStatic(frontend.path)
               /\ EndsWith(LowerPath(frontend.path), ".js")
               /\ frontend.response.cache_control =
                      IF SearchHash(LowerPath(frontend.path))
                      THEN "public, max-age=31536000, immutable"
                      ELSE "public, max-age=3600"

\* the list that is open after the elements of an output, read from its
\* start: "none", "ul" or "ol", and "bad" once a list was opened inside an
\* open list, a closing tag did not match the open list, or a list item came
\* outside a list
RECURSIVE OpenListAfter(_)
OpenListAfter(output) ==
    IF output = <<>> THEN "none"
    ELSE LET open == OpenListAfter(SubSeq(output, 1, Len(output) - 1))
             element == output[Len(output)]
         IN  IF open = "bad" THEN "bad"
             ELSE IF element \in {"<ul>", "<ol>"}
             THEN IF open # "none" THEN "bad"
                  ELSE IF element = "<ul>" THEN "ul" ELSE "ol"
             ELSE IF element \in {"</ul>", "</ol>"}
             THEN IF (element = "</ul>" /\ open = "ul") \/ (element = "</ol>" /\ open = "ol")
                  THEN "none" ELSE "bad"
             ELSE IF element = "<li>"
             THEN IF open = "none" THEN "bad" ELSE open
             ELSE open

\* C30: for any sequence of input lines, every <ul> or <ol> the converter
\* opens is closed exactly once, with the matching tag, before another list
\* is opened or the output ends; list items are emitted only while a list is
\* open; and lists are never nested.
C30_ListsClosedNeverNested ==
    /\ OpenListAfter(mdHtml.result) # "bad"
    /\ mdHtml.pc = "returned" => OpenListAfter(mdHtml.result) = "none"

\* an ordered list right after an unordered one, and a list open at the end
\* of the input
C30_Witness ==
    /\ mdHtml.pc = "returned"
    /\ mdHtml.result = <<"<ul>", "<li>", "</ul>", "<ol>", "<li>", "<li>", "</ol>">>

====
